---------------------------- MODULE Spec2Model ----------------------------
(***************************************************************************)
(* Workflow Builder backend (backend/app/main.py): the admission layer     *)
(* (check_throttle, cleanup_old_timestamps), the topology validator        *)
(* (validate_topology) and the request handlers (run_chat and the other    *)
(* endpoints that reach the validator or the throttle), the text the       *)
(* generation stage works on (build_prompt, the message list of call_llm)  *)
(* and the coroutines of concurrent requests on the one event loop         *)
(* (get_chroma_client, embed_with_hf, check_throttle).                     *)
(*                                                                         *)
(* Time is counted in ticks of 0.1 s, the resolution of the default        *)
(* throttle_delay, so every time constant of the code is an integer.       *)
(***************************************************************************)
EXTENDS Integers, Sequences, FiniteSets, TLC

VARIABLES
    now,                           \* the wall clock, time.time(), in ticks
    last_cleanup,                  \* _last_cleanup
    request_timestamps,            \* _request_timestamps: ip -> list of instants
    collection_request_timestamps, \* _collection_request_timestamps
    throttle_enabled,              \* settings.throttle_enabled
    ncalls,                        \* number of check_throttle calls made so far
    lastCall,                      \* the last check_throttle call and its result
    lastAdmit,                     \* history: instant of the last admitted call, per table and ip
    lastReject,                    \* history: instant of the last rejected call, per table and ip
    graph,                         \* the WorkflowDefinition submitted: [nodes, edges]
    topoResult,                    \* what validate_topology did with it
    settings,                      \* which credentials are configured
    request,                       \* the request being served: its endpoint and client
    nreq,                          \* number of requests that have arrived
    pc,                            \* where the handler of the request stands
    throttleChecked,               \* whether the handler has called check_throttle
    stages,                        \* the pipeline stages started, in order
    calls,                         \* outbound calls issued for the request, per operation
    context_chunks,                \* run_chat: context_chunks
    web_snippets,                  \* run_chat: web_snippets
    provider,                      \* run_chat: provider
    llm_backend,                   \* the generation backend call_llm invoked
    error_message,                 \* run_chat: error_message
    failedAt,                      \* the stage whose failure or cancellation ended the pipeline
    chat_logs,                     \* chat_logs rows written for the request
    execution_logs,                \* execution_logs rows written for the request
    response,                      \* what the caller received
    n_results,                     \* run_chat: the n_results asked of the vector store
    prompt,                        \* run_chat: prompt
    promptArgs,                    \* build_prompt: its arguments
    composed,                      \* build_prompt: its return value
    history,                       \* ChatRequest.history
    chat_history,                  \* run_chat: chat_history
    messages,                      \* call_llm: the messages sent to the OpenAI backend
    tasks,                         \* the request coroutines on the event loop
    running,                       \* the coroutine the event loop is running, 0 if none
    chroma_client,                 \* _chroma_client
    hf_model,                      \* _hf_model
    built,                         \* history: how many clients and models were constructed
    admits,                        \* history: the admitted check_throttle calls, in order
    nticks,                        \* how many times the clock has moved on since it was read
    pool,                          \* database.py: _pool
    created,                       \* history: how many pools asyncpg.create_pool has made
    lifespan,                      \* whether the startup event ran init_db
    dbtasks,                       \* the coroutines that call get_pool
    chunkArgs,                     \* chunk_text: text, chunk_size, overlap
    chunkpc,                       \* chunk_text: where the call stands
    cleaned,                       \* chunk_text: cleaned
    chunks,                        \* chunk_text: chunks
    chunk_start,                         \* chunk_text: start
    chunked                        \* chunk_text: its return value

throttleVars == <<now, last_cleanup, request_timestamps, collection_request_timestamps,
                  throttle_enabled, ncalls, lastCall, lastAdmit, lastReject>>

topoVars == <<graph, topoResult>>

\* the variables of the functions that are also checked on their own
\* the variables of the event loop and of the singletons
loopVars == <<tasks, running, chroma_client, hf_model, built, admits, nticks>>

\* the variables of the database pool
dbVars == <<pool, created, lifespan, dbtasks>>

\* the variables of the parts that are checked on their own besides the loop
\* the variables of chunk_text
chunkVars == <<chunkArgs, chunkpc, cleaned, chunks, chunk_start, chunked>>

auxVars == <<dbVars, chunkVars>>

otherVars == <<promptArgs, composed, history, chat_history, messages, loopVars, auxVars>>

\* the variables of a request handler
handlerVars == <<settings, request, nreq, pc, throttleChecked, stages, calls, context_chunks,
                 web_snippets, provider, llm_backend, error_message, failedAt, chat_logs,
                 execution_logs, response, n_results, prompt>>

runVars == <<handlerVars, otherVars>>

vars == <<throttleVars, topoVars, runVars>>

(***************************************************************************)
(* Bounds of the model.                                                    *)
(***************************************************************************)
MaxCalls == 3

MaxNodes == 3

MaxEdges == 2

MaxAddedNodes == 2

MaxRequests == 2

MaxSnippets == 2

MaxHistory == 6

MaxTasks == 2

MaxCallers == 3

MaxText == 3

Ips == {"ip1", "ip2"}

\* The endpoint strings passed to check_throttle: "collections" by
\* list_collections, "upload" by upload_knowledge, "general" is the default.
Endpoints == {"general", "collections", "upload"}

\* How far the clock may have moved between two calls, in ticks: nothing,
\* 0.1 s, 3 s, 6 s, 58 s, 60 s, 300 s, an hour, and just over an hour.
Deltas == {0, 1, 30, 60, 580, 600, 3000, 36000, 36001}

(***************************************************************************)
(* Program constants.                                                      *)
(***************************************************************************)
TicksPerSecond == 10

throttle_delay == 1                    \* 0.1 s

collection_endpoint_rate_limit == 10   \* requests per minute

WindowSeconds == 60                    \* "Remove timestamps older than 1 minute"

CleanupPeriodSeconds == 300            \* "Cleanup every 5 minutes"

IdleSeconds == 3600                    \* "older than 1 hour"

None == 0 - 1

NoCall == [ip |-> "", endpoint |-> "", t |-> None, allowed |-> FALSE, prev |-> None,
           prevReject |-> None]

(***************************************************************************)
(* Python helpers.                                                         *)
(***************************************************************************)
\* d.get(key, default)
Get(d, key, default) == IF key \in DOMAIN d THEN d[key] ELSE default

\* d[key] = value
Put(d, key, value) == [k \in (DOMAIN d) \cup {key} |-> IF k = key THEN value ELSE d[k]]

\* the dict d without the keys in ks
Without(d, ks) == [k \in (DOMAIN d) \ ks |-> d[k]]

Last(s) == s[Len(s)]

(***************************************************************************)
(* cleanup_old_timestamps                                                  *)
(***************************************************************************)
\* ips_to_remove for one table
ips_to_remove(table, current_time) ==
    {ip \in DOMAIN table :
        /\ table[ip] # <<>>
        /\ Last(table[ip]) < current_time - IdleSeconds * TicksPerSecond}

\* CleanupDue with the comparison off by one: a call exactly 300 s after
\* the previous sweep does not sweep.
CleanupDueLater(current_time) ==
    current_time - last_cleanup > CleanupPeriodSeconds * TicksPerSecond

\* whether the sweep runs at current_time
CleanupDue(current_time) ==
    ~(current_time - last_cleanup < CleanupPeriodSeconds * TicksPerSecond)

\* one table after cleanup_old_timestamps called at current_time
CleanedTable(table, current_time) ==
    IF CleanupDue(current_time)
    THEN Without(table, ips_to_remove(table, current_time))
    ELSE table

(***************************************************************************)
(* check_throttle                                                          *)
(***************************************************************************)
\* IsCollections with the collections class not told apart: every call
\* goes to the general table.
IsCollectionsNever(endpoint) == FALSE

IsCollections(endpoint) == endpoint = "collections"

\* min_interval, in ticks
min_interval(endpoint) ==
    IF IsCollections(endpoint)
    THEN (60 * TicksPerSecond) \div collection_endpoint_rate_limit
    ELSE throttle_delay

\* [ts for ts in timestamps if current_time - ts < 60]
Pruned(timestamps, current_time) ==
    SelectSeq(timestamps, LAMBDA ts : current_time - ts < WindowSeconds * TicksPerSecond)

\* Throttled with the comparison off by one: a request exactly min_interval
\* after the last one is turned away.
ThrottledInclusive(timestamps, current_time, endpoint) ==
    /\ timestamps # <<>>
    /\ current_time - Last(timestamps) <= min_interval(endpoint)

\* the early "return False"
Throttled(timestamps, current_time, endpoint) ==
    /\ timestamps # <<>>
    /\ current_time - Last(timestamps) < min_interval(endpoint)

\* One call check_throttle(client_ip, endpoint) made when the clock reads
\* current_time.  The coroutine has no suspension point (the awaited
\* cleanup_old_timestamps has none either), so it runs as one step.
check_throttle(client_ip, endpoint, current_time) ==
    LET reqTable  == CleanedTable(request_timestamps, current_time)
        collTable == CleanedTable(collection_request_timestamps, current_time)
        table     == IF IsCollections(endpoint) THEN collTable ELSE reqTable
        timestamps == Pruned(Get(table, client_ip, <<>>), current_time)
        allowed   == ~throttle_enabled \/ ~Throttled(timestamps, current_time, endpoint)
        record    == throttle_enabled /\ allowed
        key       == <<IsCollections(endpoint), client_ip>>
    IN  /\ last_cleanup' = IF CleanupDue(current_time) THEN current_time ELSE last_cleanup
        /\ request_timestamps' =
              IF record /\ ~IsCollections(endpoint)
              THEN Put(reqTable, client_ip, Append(timestamps, current_time))
              ELSE reqTable
        /\ collection_request_timestamps' =
              IF record /\ IsCollections(endpoint)
              THEN Put(collTable, client_ip, Append(timestamps, current_time))
              ELSE collTable
        /\ lastCall' = [ip |-> client_ip, endpoint |-> endpoint, t |-> current_time,
                        allowed |-> allowed, prev |-> lastAdmit[key],
                        prevReject |-> lastReject[key]]
        /\ lastAdmit' = IF record THEN [lastAdmit EXCEPT ![key] = current_time]
                        ELSE lastAdmit
        /\ lastReject' = IF allowed THEN lastReject
                         ELSE [lastReject EXCEPT ![key] = current_time]

\* A client calls check_throttle after the clock has moved on by d ticks.
CheckThrottle ==
    /\ ncalls < MaxCalls
    /\ \E client_ip \in Ips, endpoint \in Endpoints, d \in Deltas :
          /\ now' = now + d
          /\ check_throttle(client_ip, endpoint, now + d)
    /\ ncalls' = ncalls + 1
    /\ UNCHANGED <<throttle_enabled, topoVars, runVars>>

(***************************************************************************)
(* validate_topology                                                       *)
(***************************************************************************)
\* The role strings the code knows, and one it does not.
RecognizedTypes == {"user_query", "knowledge_base", "llm_engine", "output"}

Types == RecognizedTypes \cup {"custom"}

\* for required in ("user_query", "llm_engine", "output")
Required == <<"user_query", "llm_engine", "output">>

EmptyGraph == [nodes |-> <<>>, edges |-> <<>>]

NotValidated == [ok |-> FALSE, rule |-> 0, detail |-> "not validated", arg |-> "",
                 by_type |-> <<>>]

\* raise HTTPException(status_code=400, detail=...): rule is the number of the
\* check that raised, arg the text interpolated into the detail.
Raise(rule, detail, arg) ==
    [ok |-> FALSE, rule |-> rule, detail |-> detail, arg |-> arg, by_type |-> <<>>]

\* return by_type
Return(by_type) == [ok |-> TRUE, rule |-> 0, detail |-> "", arg |-> "", by_type |-> by_type]

\* node_ids = {n.id for n in payload.nodes}
node_ids(payload) == {payload.nodes[i].id : i \in DOMAIN payload.nodes}

\* EdgesReferenceUnknown looking at the source of each edge only.
EdgesReferenceUnknownSource(payload) ==
    \E i \in DOMAIN payload.edges : payload.edges[i].source \notin node_ids(payload)

\* the loop over payload.edges that raises "Edges reference unknown nodes"
EdgesReferenceUnknown(payload) ==
    \E i \in DOMAIN payload.edges :
        \/ payload.edges[i].source \notin node_ids(payload)
        \/ payload.edges[i].target \notin node_ids(payload)

\* FirstDuplicate without the test "node.type in by_type": a second node of
\* a type silently replaces the first in by_type.
FirstDuplicateUnchecked(nodes) == 0

\* The position of the first node whose type is already in by_type when the
\* loop reaches it, 0 when the loop ends without raising.
FirstDuplicate(nodes) ==
    LET dup == {i \in DOMAIN nodes : \E j \in 1..(i - 1) : nodes[j].type = nodes[i].type}
    IN  IF dup = {} THEN 0 ELSE CHOOSE i \in dup : \A k \in dup : i <= k

\* by_type after the loop  by_type[node.type] = node  has run over all nodes:
\* a later assignment to the same key replaces the earlier one.
by_type_of(nodes) ==
    [t \in {nodes[i].type : i \in DOMAIN nodes} |->
        nodes[CHOOSE i \in DOMAIN nodes :
                 /\ nodes[i].type = t
                 /\ \A k \in DOMAIN nodes : nodes[k].type = t => k <= i]]

\* The position in Required of the first required type missing from by_type,
\* 0 when none is missing.
FirstMissing(by_type) ==
    LET missing == {r \in DOMAIN Required : Required[r] \notin DOMAIN by_type}
    IN  IF missing = {} THEN 0 ELSE CHOOSE r \in missing : \A k \in missing : r <= k

\* adjacency[edge.source].append(edge.target), for the edges from position i on
RECURSIVE targets_from(_, _, _)
targets_from(edges, source, i) ==
    IF i > Len(edges) THEN <<>>
    ELSE IF edges[i].source = source
         THEN <<edges[i].target>> \o targets_from(edges, source, i + 1)
         ELSE targets_from(edges, source, i + 1)

\* adjacency filled in both directions: every edge is also followed from its
\* target back to its source.
RECURSIVE neighbours_from(_, _, _)
neighbours_from(edges, source, i) ==
    IF i > Len(edges) THEN <<>>
    ELSE (IF edges[i].source = source THEN <<edges[i].target>> ELSE <<>>)
         \o (IF edges[i].target = source THEN <<edges[i].source>> ELSE <<>>)
         \o neighbours_from(edges, source, i + 1)

adjacencyUndirected(edges, current) == neighbours_from(edges, current, 1)

\* adjacency.get(current, [])
adjacency(edges, current) == targets_from(edges, current, 1)

\* the while queue: loop; returns visited
RECURSIVE bfs(_, _, _)
bfs(edges, queue, visited) ==
    IF queue = <<>> THEN visited
    ELSE LET current == Head(queue)
         IN  IF current \in visited
             THEN bfs(edges, Tail(queue), visited)
             ELSE bfs(edges, Tail(queue) \o adjacency(edges, current),
                      visited \cup {current})

\* needed.issubset(visited)
Connected(payload, by_type) ==
    LET start   == by_type["user_query"].id
        needed  == {by_type["llm_engine"].id, by_type["output"].id}
        visited == bfs(payload.edges, <<start>>, {})
    IN  needed \subseteq visited

\* validate_topology without its last two checks: the required roles and the
\* reachability are not enforced.
validate_topology_unchecked(payload) ==
    IF payload.nodes = <<>>
    THEN Raise(1, "Workflow must have at least one node", "")
    ELSE IF payload.edges = <<>>
    THEN Raise(1, "Workflow must have at least one edge", "")
    ELSE IF EdgesReferenceUnknown(payload)
    THEN Raise(2, "Edges reference unknown nodes", "")
    ELSE IF FirstDuplicate(payload.nodes) # 0
    THEN Raise(3, "Only one {node.type} node is allowed for now",
               payload.nodes[FirstDuplicate(payload.nodes)].type)
    ELSE Return(by_type_of(payload.nodes))

validate_topology(payload) ==
    IF payload.nodes = <<>>
    THEN Raise(1, "Workflow must have at least one node", "")
    ELSE IF payload.edges = <<>>
    THEN Raise(1, "Workflow must have at least one edge", "")
    ELSE IF EdgesReferenceUnknown(payload)
    THEN Raise(2, "Edges reference unknown nodes", "")
    ELSE IF FirstDuplicate(payload.nodes) # 0
    THEN Raise(3, "Only one {node.type} node is allowed for now",
               payload.nodes[FirstDuplicate(payload.nodes)].type)
    ELSE LET by_type == by_type_of(payload.nodes)
         IN  IF FirstMissing(by_type) # 0
             THEN Raise(4, "Missing required node: {required}",
                        Required[FirstMissing(by_type)])
             ELSE IF ~Connected(payload, by_type)
             THEN Raise(5, "Flow must connect User Query to LLM and Output", "")
             ELSE Return(by_type)

(***************************************************************************)
(* The graphs submitted to the validator.  Node ids are written as         *)
(* numbers, a new id being the next number not yet used (two nodes may     *)
(* carry the same id); id 0 stands for an id that no node has.  Edge lists *)
(* are taken without repetition, in increasing order.                      *)
(***************************************************************************)
Node(id, type) == [id |-> id, type |-> type, params |-> <<>>]

Edge(source, target) == [source |-> source, target |-> target]

\* the highest id among the first i entries of ids
RECURSIVE MaxId(_, _)
MaxId(ids, i) ==
    IF i = 0 THEN 0
    ELSE IF ids[i] > MaxId(ids, i - 1) THEN ids[i] ELSE MaxId(ids, i - 1)

\* the ways to give ids to n nodes: each id is one used before or the next new one
IdLists(n) == {ids \in [1..n -> 1..n] : \A i \in 1..n : ids[i] <= MaxId(ids, i - 1) + 1}

NodeLists(maxNodes) ==
    UNION {{[i \in 1..n |-> Node(ids[i], ty[i])] : ids \in IdLists(n), ty \in [1..n -> Types]} :
              n \in 0..maxNodes}

\* the number of distinct ids of a node list
IdCount(nodes) == Cardinality({nodes[i].id : i \in DOMAIN nodes})

\* the k-th ordered pair of ids in 0..n
PairAt(k, n) == Edge(k \div (n + 1), k % (n + 1))

\* the increasing sequences of m numbers below limit
RECURSIVE IncreasingSeqs(_, _)
IncreasingSeqs(m, limit) ==
    IF m = 0 THEN {<<>>}
    ELSE UNION {{Append(s, k) : k \in (IF s = <<>> THEN 0 ELSE Last(s) + 1)..(limit - 1)} :
                   s \in IncreasingSeqs(m - 1, limit)}

EdgeLists(n, maxEdges) ==
    {[i \in DOMAIN s |-> PairAt(s[i], n)] :
        s \in UNION {IncreasingSeqs(m, (n + 1) * (n + 1)) : m \in 0..maxEdges}}

(***************************************************************************)
(* Text.  A str is the sequence of its pieces: a piece is a run of         *)
(* characters that the code never looks into, or a line break.  The empty  *)
(* str is the empty sequence.  An Optional[str] is a record: None is       *)
(* NoneStr, a str s is Str(s).                                             *)
(***************************************************************************)
NL == "\n"

NoneStr == [given |-> FALSE, text |-> <<>>]

Str(s) == [given |-> TRUE, text |-> s]

\* the truth value Python gives to an Optional[str]: None and "" are false
Truthy(o) == o.given /\ o.text # <<>>

\* sep.join(parts), with a separator after every part, the last included
RECURSIVE JoinTrailing(_, _)
JoinTrailing(sep, parts) ==
    IF parts = <<>> THEN <<>>
    ELSE Head(parts) \o sep \o JoinTrailing(sep, Tail(parts))

\* sep.join(parts)
RECURSIVE Join(_, _)
Join(sep, parts) ==
    IF parts = <<>> THEN <<>>
    ELSE IF Len(parts) = 1 THEN Head(parts)
    ELSE Head(parts) \o sep \o Join(sep, Tail(parts))

\* def build_prompt(question, context, web_snippets, custom_prompt)
build_prompt(question, context, snippets, custom_prompt) ==
    LET parts0 == IF Truthy(custom_prompt) THEN <<custom_prompt.text>> ELSE <<>>
        parts1 == IF context # <<>>
                  THEN Append(parts0, <<"Context:", NL>> \o Join(<<NL, "---", NL>>, context))
                  ELSE parts0
        parts2 == IF snippets # <<>>
                  THEN Append(parts1, <<"Web search hints:", NL>> \o Join(<<NL>>, snippets))
                  ELSE parts1
        parts3 == Append(parts2, <<"Question: ">> \o question)
        parts4 == Append(parts3, <<"Answer concisely. If unsure, say you are unsure.">>)
    IN  Join(<<NL, NL>>, parts4)

(***************************************************************************)
(* The state of a request handler.                                         *)
(***************************************************************************)
NoCalls == [collection |-> 0, embed |-> 0, query |-> 0, search |-> 0, llm |-> 0,
            save_chat_log |-> 0, save_execution_log |-> 0]

NoRequest == [kind |-> "", client_ip |-> ""]

NoResponse == [code |-> 0, detail |-> ""]

NoArgs == [question |-> <<>>, context |-> <<>>, web_snippets |-> <<>>, custom_prompt |-> <<>>]

NotComposed == <<"not composed">>

\* an Optional[List[Dict[str, str]]]: None is NoHistory
NoHistory == [given |-> FALSE, turns |-> <<>>]

NotTrimmed == [done |-> FALSE, turns |-> <<>>]

NotSent == <<>>

\* The handler's own state before its first statement.
FreshHandler ==
    /\ throttleChecked = FALSE
    /\ stages = <<>>
    /\ calls = NoCalls
    /\ context_chunks = <<>>
    /\ web_snippets = <<>>
    /\ provider = ""
    /\ llm_backend = ""
    /\ error_message = ""
    /\ failedAt = ""
    /\ chat_logs = <<>>
    /\ execution_logs = <<>>
    /\ response = NoResponse
    /\ n_results = None
    /\ prompt = <<>>

\* No coroutine exists and no singleton has been constructed.
LoopIdle ==
    /\ tasks = <<>>
    /\ running = 0
    /\ chroma_client = None
    /\ hf_model = None
    /\ built = [chroma |-> 0, hf |-> 0]
    /\ admits = <<>>
    /\ nticks = 0

\* The pool was made at startup and nothing else calls get_pool.
DbIdle ==
    /\ pool = 1
    /\ created = 1
    /\ lifespan = "on"
    /\ dbtasks = <<>>

NoChunkArgs == [text |-> <<>>, chunk_size |-> 800, overlap |-> 80]

\* chunk_text is not being called.
ChunkIdle ==
    /\ chunkArgs = NoChunkArgs
    /\ chunkpc = "idle"
    /\ cleaned = <<>>
    /\ chunks = <<>>
    /\ chunk_start = 0
    /\ chunked = <<>>

AuxIdle == DbIdle /\ ChunkIdle

\* No call of build_prompt or call_llm is being looked at on its own.
OtherIdle ==
    /\ AuxIdle
    /\ promptArgs = NoArgs
    /\ composed = NotComposed
    /\ history = NoHistory
    /\ chat_history = NotTrimmed
    /\ messages = NotSent
    /\ LoopIdle

\* No request is being served.
HandlerIdle ==
    /\ settings = [openai_api_key |-> FALSE, gemini_api_key |-> FALSE, serpapi_key |-> FALSE]
    /\ request = NoRequest
    /\ nreq = 0
    /\ pc = "idle"
    /\ FreshHandler

RunIdle ==
    /\ HandlerIdle
    /\ OtherIdle

TopoIdle ==
    /\ graph = EmptyGraph
    /\ topoResult = NotValidated

InitThrottle ==
    /\ now = 0
    /\ last_cleanup = 0
    /\ request_timestamps = <<>>
    /\ collection_request_timestamps = <<>>
    /\ throttle_enabled \in BOOLEAN
    /\ ncalls = 0
    /\ lastCall = NoCall
    /\ lastAdmit = [k \in BOOLEAN \X Ips |-> None]
    /\ lastReject = [k \in BOOLEAN \X Ips |-> None]
    /\ TopoIdle
    /\ RunIdle

ThrottleIdle ==
    /\ now = 0
    /\ last_cleanup = 0
    /\ request_timestamps = <<>>
    /\ collection_request_timestamps = <<>>
    /\ throttle_enabled = TRUE
    /\ ncalls = 0
    /\ lastCall = NoCall
    /\ lastAdmit = [k \in BOOLEAN \X Ips |-> None]
    /\ lastReject = [k \in BOOLEAN \X Ips |-> None]

NextThrottle == CheckThrottle

SpecThrottle == InitThrottle /\ [][NextThrottle]_vars

(***************************************************************************)
(* C1: with throttling enabled, a check_throttle call at time t is         *)
(* rejected if and only if the most recent admitted call of the same       *)
(* identity and class happened at a time t' with t - t' < min_interval     *)
(* and t - t' < 60 s; rejected calls never count as the last request.      *)
(***************************************************************************)
C1_RejectIffTooSoon ==
    (throttle_enabled /\ lastCall # NoCall) =>
        (~lastCall.allowed <=>
            /\ lastCall.prev # None
            /\ lastCall.t - lastCall.prev < min_interval(lastCall.endpoint)
            /\ lastCall.t - lastCall.prev < WindowSeconds * TicksPerSecond)

\* C1 witness: a call is rejected, and a later call of the same identity and
\* class, at least min_interval after the last admitted one, is admitted
\* although the rejected call was more recent.
C1_Witness ==
    /\ throttle_enabled
    /\ lastCall.allowed
    /\ lastCall.prev # None
    /\ lastCall.prevReject > lastCall.prev
    /\ lastCall.t - lastCall.prev >= min_interval(lastCall.endpoint)
    /\ lastCall.t - lastCall.prevReject < min_interval(lastCall.endpoint)

(***************************************************************************)
(* The validator applied to every graph of at most MaxNodes nodes and      *)
(* MaxEdges edges.                                                         *)
(***************************************************************************)
InitTopo ==
    /\ ThrottleIdle
    /\ RunIdle
    /\ \E nodes \in NodeLists(MaxNodes) :
          \E edges \in EdgeLists(IdCount(nodes), MaxEdges) :
              graph = [nodes |-> nodes, edges |-> edges]
    /\ topoResult = NotValidated

\* POST /workflow/validate: validate_topology(payload)
Validate ==
    /\ topoResult = NotValidated
    /\ topoResult' = validate_topology(graph)
    /\ UNCHANGED <<graph, throttleVars, runVars>>

NextTopo == Validate

SpecTopo == InitTopo /\ [][NextTopo]_vars

Validated == topoResult # NotValidated

(***************************************************************************)
(* The five rules of the validator, stated on the graph itself.            *)
(***************************************************************************)
NodesOfType(g, t) == {i \in DOMAIN g.nodes : g.nodes[i].type = t}

Violates1(g) == g.nodes = <<>> \/ g.edges = <<>>

Violates2(g) ==
    \E e \in {g.edges[i] : i \in DOMAIN g.edges} :
        \/ ~\E i \in DOMAIN g.nodes : g.nodes[i].id = e.source
        \/ ~\E i \in DOMAIN g.nodes : g.nodes[i].id = e.target

\* two nodes of the same role, as the validator reads rule 3: any role string
Violates3(g) == \E t \in Types : Cardinality(NodesOfType(g, t)) > 1

Violates4(g) == \E r \in DOMAIN Required : NodesOfType(g, Required[r]) = {}

\* The ids reachable from the ids in from by at most k edges, each followed
\* from its source to its target.
RECURSIVE ReachableIn(_, _, _)
ReachableIn(g, from, k) ==
    IF k = 0 THEN from
    ELSE LET near == ReachableIn(g, from, k - 1)
         IN  near \cup {g.edges[i].target : i \in {j \in DOMAIN g.edges : g.edges[j].source \in near}}

Reaches(g, a, b) == b \in ReachableIn(g, {a}, Len(g.edges))

IdsOfType(g, t) == {g.nodes[i].id : i \in NodesOfType(g, t)}

\* llm_engine and output are both reachable from user_query
Violates5(g) ==
    ~\A q \in IdsOfType(g, "user_query") :
        \A x \in IdsOfType(g, "llm_engine") \cup IdsOfType(g, "output") : Reaches(g, q, x)

C8_WitnessReverse ==
    /\ graph = [nodes |-> <<Node(1, "user_query"), Node(2, "llm_engine"), Node(3, "output")>>,
                edges |-> <<Edge(1, 2), Edge(3, 2)>>]
    /\ Validated
    /\ ~topoResult.ok

(***************************************************************************)
(* C9: the failure reported is always that of the earliest violated rule,  *)
(* in the order (1) no node or no edge, (2) an edge endpoint that is not a *)
(* node id, (3) two nodes with the same role, (4) a missing required role, *)
(* (5) llm_engine or output not reachable from user_query.                 *)
(***************************************************************************)
EarliestViolated(g) ==
    IF Violates1(g) THEN 1
    ELSE IF Violates2(g) THEN 2
    ELSE IF Violates3(g) THEN 3
    ELSE IF Violates4(g) THEN 4
    ELSE IF Violates5(g) THEN 5
    ELSE 0

C9_FirstFailureWins == Validated => topoResult.rule = EarliestViolated(graph)

\* C9 witness: a graph that violates rules 2, 3 and 4 at once is reported
\* as violating rule 2.
C9_Witness ==
    /\ Validated
    /\ Violates2(graph) /\ Violates3(graph) /\ Violates4(graph)
    /\ ~Violates1(graph)
    /\ topoResult.rule = 2

(***************************************************************************)
(* A workflow being edited: the client starts from the minimal valid       *)
(* workflow A(user_query) -> B(llm_engine) -> C(output), drops more nodes  *)
(* on the canvas or deletes an edge, and submits the graph.                *)
(***************************************************************************)
MinimalWorkflow ==
    [nodes |-> <<Node(1, "user_query"), Node(2, "llm_engine"), Node(3, "output")>>,
     edges |-> <<Edge(1, 2), Edge(2, 3)>>]

InitEdit ==
    /\ ThrottleIdle
    /\ RunIdle
    /\ graph = MinimalWorkflow
    /\ topoResult = NotValidated

\* the sequence s without its i-th element
RemoveAt(s, i) == SubSeq(s, 1, i - 1) \o SubSeq(s, i + 1, Len(s))

AddNode ==
    /\ topoResult = NotValidated
    /\ Len(graph.nodes) < Len(MinimalWorkflow.nodes) + MaxAddedNodes
    /\ \E id \in 1..(IdCount(graph.nodes) + 1), type \in Types :
          graph' = [graph EXCEPT !.nodes = Append(@, Node(id, type))]
    /\ UNCHANGED <<topoResult, throttleVars, runVars>>

RemoveEdge ==
    /\ topoResult = NotValidated
    /\ \E i \in DOMAIN graph.edges :
          graph' = [graph EXCEPT !.edges = RemoveAt(@, i)]
    /\ UNCHANGED <<topoResult, throttleVars, runVars>>

NextEdit == AddNode \/ RemoveEdge \/ Validate

SpecEdit == InitEdit /\ [][NextEdit]_vars

(***************************************************************************)
(* C6: role uniqueness applies only to the recognized roles: a graph that  *)
(* satisfies every other rule but has two or more nodes of the same        *)
(* unrecognized type is still accepted.                                    *)
(***************************************************************************)
DuplicateRecognized(g) == \E t \in RecognizedTypes : Cardinality(NodesOfType(g, t)) > 1

DuplicateUnrecognized(g) ==
    \E t \in Types \ RecognizedTypes : Cardinality(NodesOfType(g, t)) > 1

DistinctIds(g) ==
    \A i, j \in DOMAIN g.nodes : g.nodes[i].id = g.nodes[j].id => i = j

C6_UnrecognizedExempt ==
    (/\ Validated
     /\ DuplicateUnrecognized(graph)
     /\ ~Violates1(graph) /\ ~Violates2(graph) /\ ~DuplicateRecognized(graph)
     /\ ~Violates4(graph) /\ ~Violates5(graph)
     /\ DistinctIds(graph))
    => topoResult.ok

(***************************************************************************)
(* C7: validate_topology never accepts a graph in which two nodes have the *)
(* same id: in every accepted graph the node ids are pairwise distinct.    *)
(***************************************************************************)
C7_AcceptedIdsDistinct == (Validated /\ topoResult.ok) => DistinctIds(graph)

(***************************************************************************)
(* C10: any graph with two nodes of the same recognized role (user_query,  *)
(* knowledge_base, llm_engine or output) is rejected, whatever its edges.  *)
(***************************************************************************)
C10_DuplicateRecognizedRejected ==
    (Validated /\ DuplicateRecognized(graph)) => ~topoResult.ok

\* C10 witness: a graph that has every required role, connected as required,
\* and a second node of a recognized role is rejected for the duplicate.
C10_Witness ==
    /\ Validated
    /\ DuplicateRecognized(graph)
    /\ ~Violates1(graph) /\ ~Violates2(graph) /\ ~Violates4(graph)
    /\ graph.edges = MinimalWorkflow.edges
    /\ ~topoResult.ok
    /\ topoResult.rule = 3

(***************************************************************************)
(* The request handlers: run_chat (POST /chat/run), validate_workflow      *)
(* (POST /workflow/validate), upload_knowledge (POST /knowledge/upload)    *)
(* and list_collections (GET /knowledge/collections).  One request is      *)
(* served at a time; the rows it writes and the calls it issues are        *)
(* counted per request.                                                    *)
(***************************************************************************)
Kinds == {"run", "validate", "upload", "collections"}

\* How an awaited outbound call can end: it returns, it raises, or the task
\* is cancelled while it waits (CancelledError, which "except Exception"
\* does not catch).
Awaited == {"ok", "error", "cancelled"}

\* How a call made without await can end.
Direct == {"ok", "error"}

\* the clock between two requests: the same instant, or a minute later
RequestDeltas == {0, 600}

TopKDefault == 4       \* kb_params.get("top_k", 4)

TopKCeiling == 3       \* min(..., 3)

WebMaxResults == 3     \* run_web_search(..., max_results=3)

WebCap == 2            \* web_snippets[:2]

\* how many documents the collection may hold
StoreSizes == {0, 1, 5}

\* how many organic results with a snippet or title a search may return
SearchSizes == {0, 1, 5}

Min(a, b) == IF a < b THEN a ELSE b

\* s[:n] without the bound: the whole list
TakeAll(s, n) == s

\* the first n elements of s: s[:n]
Take(s, n) == SubSeq(s, 1, Min(n, Len(s)))

\* the documents of a collection of the given size, nearest first
Ranked(size) == [i \in 1..size |-> i]

\* collection.query(query_embeddings=[...], n_results=n) on a collection of the given size
StoreQuery(size, n) == [documents |-> <<Take(Ranked(size), n)>>]

\* query_collection: docs = result.get("documents", [[]]); return docs[0] if docs else []
query_collection(size, n) ==
    LET result == StoreQuery(size, n)
        docs == Get(result, "documents", <<<<>>>>)
    IN  IF docs # <<>> THEN docs[1] ELSE <<>>

\* chat_request.message
Message == <<"What is X?">>

\* the text of a stored document and of a search result
DocText(i) == <<"doc", ToString(i)>>

SnippetText(i) == <<"hit", ToString(i)>>

TextOf(ids, text(_)) == [i \in DOMAIN ids |-> text(ids[i])]

\* The workflows sent to /chat/run: the nodes are any of user_query,
\* knowledge_base, llm_engine, output in this order, joined by a chain of
\* edges in the direction of the flow or against it.
RoleOrder == <<"user_query", "knowledge_base", "llm_engine", "output">>

KbParams == {<<>>, [top_k |-> 2], [top_k |-> 5]}

LlmParams ==
    {web @@ prov : web \in {<<>>, [web_search |-> TRUE]},
                   prov \in {<<>>} \cup {[provider |-> p] : p \in {"", "openai", "gemini", "other"}}}

ParamsFor(type) ==
    IF type = "knowledge_base" THEN KbParams
    ELSE IF type = "llm_engine" THEN LlmParams
    ELSE {<<>>}

\* the roles of RoleOrder picked by the set of positions keep, in order
RECURSIVE PickRoles(_, _)
PickRoles(keep, i) ==
    IF i > Len(RoleOrder) THEN <<>>
    ELSE (IF i \in keep THEN <<RoleOrder[i]>> ELSE <<>>) \o PickRoles(keep, i + 1)

ChainEdges(n, forward) ==
    [i \in 1..(n - 1) |-> IF forward THEN Edge(i, i + 1) ELSE Edge(i + 1, i)]

RunGraphs ==
    UNION {
        LET roles == PickRoles(keep, 1)
        IN  {[nodes |-> [i \in DOMAIN roles |->
                            [id |-> i, type |-> roles[i], params |-> ps[i]]],
              edges |-> ChainEdges(Len(roles), forward)] :
                 ps \in {f \in [DOMAIN roles -> KbParams \cup LlmParams] :
                            \A i \in DOMAIN roles : f[i] \in ParamsFor(roles[i])},
                 forward \in BOOLEAN}
        : keep \in SUBSET (DOMAIN RoleOrder)}

\* the variables of run_chat's frame that a step may leave alone
frameVars == <<context_chunks, n_results, web_snippets, provider, prompt, llm_backend, chat_logs,
               execution_logs>>

fixedVars == <<settings, request, nreq, graph, throttleVars, otherVars>>

\* A request arrives.  The slowapi limiter of the route (@limiter.limit) is
\* a library: it lets the request through to the handler or answers 429.
Arrive ==
    /\ pc = "idle"
    /\ nreq < MaxRequests
    /\ nreq' = nreq + 1
    /\ \E d \in RequestDeltas : now' = now + d
    /\ \E kind \in Kinds, client_ip \in {"ip1"} :
          /\ request' = [kind |-> kind, client_ip |-> client_ip]
          /\ IF kind = "run" THEN graph' \in RunGraphs
             ELSE IF kind = "validate" THEN graph' \in {g \in RunGraphs : \A i \in DOMAIN g.nodes : g.nodes[i].params = <<>>}
             ELSE graph' = EmptyGraph
          /\ \E limited \in BOOLEAN :
                IF limited
                THEN /\ pc' = "rejected"
                     /\ response' = [code |-> 429, detail |-> "Rate limit exceeded"]
                ELSE /\ pc' = kind
                     /\ response' = NoResponse
    /\ UNCHANGED <<topoResult, throttleChecked, stages, calls, frameVars, error_message,
                   failedAt>>
    /\ UNCHANGED <<settings, last_cleanup, request_timestamps, collection_request_timestamps,
                   throttle_enabled, ncalls, lastCall, lastAdmit, lastReject, otherVars>>

\* An exception leaves the try block: control goes to "except Exception".
Fail(stage, detail) ==
    /\ pc' = "log_error"
    /\ error_message' = detail
    /\ failedAt' = stage
    /\ response' = response

\* The task is cancelled while it awaits: CancelledError unwinds run_chat.
Cancelled(stage) ==
    /\ pc' = "cancelled"
    /\ error_message' = error_message
    /\ failedAt' = stage
    /\ response' = [code |-> 0, detail |-> "cancelled"]

Continue(next) ==
    /\ pc' = next
    /\ UNCHANGED <<error_message, failedAt, response>>

Called(op) == calls' = [calls EXCEPT ![op] = @ + 1]

\* str(e) of the HTTPException raised by validate_topology
Detail(result) == result.detail

kb_node == Get(topoResult.by_type, "knowledge_base", None)

llm_node == topoResult.by_type["llm_engine"]

\* RetrievalWanted whatever the workflow holds
RetrievalAlways(by_type) == TRUE

\* kb_node = nodes_by_type.get("knowledge_base"); if kb_node:
RetrievalWanted(by_type) == "knowledge_base" \in DOMAIN by_type

\* nodes_by_type = validate_topology(chat_request.workflow)
RunValidate ==
    /\ pc = "run"
    /\ stages' = Append(stages, "validation")
    /\ LET result == validate_topology(graph)
       IN  /\ topoResult' = result
           /\ IF ~result.ok THEN Fail("validation", Detail(result))
              ELSE IF "llm_engine" \notin DOMAIN result.by_type
              THEN Fail("validation", "KeyError: 'llm_engine'")
              ELSE IF RetrievalWanted(result.by_type) THEN Continue("collection")
              ELSE Continue("web")
    /\ UNCHANGED <<fixedVars, frameVars, throttleChecked, calls>>

\* top_k without the ceiling
top_k_unclamped == Get(kb_node.params, "top_k", TopKDefault)

\* top_k = min(int(kb_params.get("top_k", 4)), 3)
top_k == Min(Get(kb_node.params, "top_k", TopKDefault), TopKCeiling)

\* collection_handle = get_chroma_collection(settings, collection_name)
RunCollection ==
    /\ pc = "collection"
    /\ stages' = Append(stages, "retrieval")
    /\ Called("collection")
    /\ \E outcome \in Direct :
          IF outcome = "ok" THEN Continue("embed")
          ELSE Fail("retrieval", "vector store error")
    /\ UNCHANGED <<fixedVars, frameVars, topoResult, throttleChecked>>

\* query_embedding = (await embed_texts([chat_request.message], ...))[0]
RunEmbed ==
    /\ pc = "embed"
    /\ Called("embed")
    /\ \E outcome \in Awaited :
          IF outcome = "ok" THEN Continue("query")
          ELSE IF outcome = "error" THEN Fail("retrieval", "embedding error")
          ELSE Cancelled("retrieval")
    /\ UNCHANGED <<fixedVars, frameVars, topoResult, throttleChecked, stages>>

\* context_chunks = await query_collection(collection_handle, query_embedding, top_k=top_k)
RunQuery ==
    /\ pc = "query"
    /\ Called("query")
    /\ n_results' = top_k
    /\ \E outcome \in Awaited :
          IF outcome = "ok"
          THEN /\ \E size \in StoreSizes : context_chunks' = query_collection(size, top_k)
               /\ Continue("web")
          ELSE /\ context_chunks' = context_chunks
               /\ IF outcome = "error" THEN Fail("retrieval", "vector query error")
                  ELSE Cancelled("retrieval")
    /\ UNCHANGED <<fixedVars, web_snippets, provider, prompt, llm_backend, chat_logs, execution_logs,
                   topoResult, throttleChecked, stages>>

\* WebRequested ignoring the web_search parameter: the search is always made.
WebRequestedAlways == TRUE

\* llm_node.params.get("web_search")
WebRequested == Get(llm_node.params, "web_search", FALSE)

\* if llm_node.params.get("web_search"): web_snippets = run_web_search(...)[:2]
RunWeb ==
    /\ pc = "web"
    /\ IF WebRequested
       THEN /\ stages' = Append(stages, "web_search")
            /\ IF ~settings.serpapi_key
               THEN \* run_web_search returns [] without searching
                    /\ calls' = calls
                    /\ web_snippets' = <<>>
                    /\ Continue("compose")
               ELSE /\ Called("search")
                    /\ \E outcome \in Direct :
                          IF outcome = "ok"
                          THEN /\ \E size \in SearchSizes :
                                     web_snippets' =
                                        Take(Take(Ranked(size), WebMaxResults), WebCap)
                               /\ Continue("compose")
                          ELSE /\ web_snippets' = web_snippets
                               /\ Fail("web_search", "search error")
       ELSE /\ stages' = stages
            /\ calls' = calls
            /\ web_snippets' = web_snippets
            /\ Continue("compose")
    /\ UNCHANGED <<fixedVars, context_chunks, n_results, provider, prompt, llm_backend, chat_logs, execution_logs,
                   topoResult, throttleChecked>>

\* ChosenProvider preferring Gemini over OpenAI when the node names no provider.
ChosenProviderGeminiFirst ==
    IF Get(llm_node.params, "provider", "") # ""
    THEN llm_node.params["provider"]
    ELSE IF settings.gemini_api_key THEN "gemini" ELSE "openai"

\* provider = llm_node.params.get("provider") or ("openai" if settings.openai_api_key else "gemini")
ChosenProvider ==
    IF Get(llm_node.params, "provider", "") # ""
    THEN llm_node.params["provider"]
    ELSE IF settings.openai_api_key THEN "openai" ELSE "gemini"

\* prompt = build_prompt(...); provider = ...; llm_model = ...
RunCompose ==
    /\ pc = "compose"
    /\ stages' = Append(stages, "composition")
    /\ prompt' = build_prompt(Message, TextOf(context_chunks, DocText),
                               TextOf(web_snippets, SnippetText),
                               IF "prompt" \in DOMAIN llm_node.params
                               THEN Str(llm_node.params["prompt"]) ELSE NoneStr)
    /\ provider' = ChosenProvider
    /\ Continue("generate")
    /\ UNCHANGED <<fixedVars, context_chunks, n_results, web_snippets, llm_backend, chat_logs,
                   execution_logs, topoResult, throttleChecked, calls>>

\* the backend call_llm sends the prompt to: Gemini for "gemini", OpenAI otherwise
BackendOf(p) == IF p = "gemini" THEN "gemini" ELSE "openai"

\* KeyOf taking every credential as configured
KeyOfUnchecked(backend) == TRUE

KeyOf(backend) ==
    IF backend = "gemini" THEN settings.gemini_api_key ELSE settings.openai_api_key

MissingKeyDetail(backend) ==
    IF backend = "gemini" THEN "Gemini provider selected but GEMINI_API_KEY is missing"
    ELSE "OpenAI provider selected but OPENAI_API_KEY is missing"

\* answer = await call_llm(provider, prompt, settings, llm_model, chat_history)
RunGenerate ==
    /\ pc = "generate"
    /\ stages' = Append(stages, "generation")
    /\ LET backend == BackendOf(provider)
       IN  IF ~KeyOf(backend)
           THEN /\ calls' = calls
                /\ llm_backend' = llm_backend
                /\ Fail("generation", MissingKeyDetail(backend))
           ELSE /\ Called("llm")
                /\ llm_backend' = backend
                /\ \E outcome \in Awaited :
                      IF outcome = "ok" THEN Continue("chat_log")
                      ELSE IF outcome = "error" THEN Fail("generation", "provider error")
                      ELSE Cancelled("generation")
    /\ UNCHANGED <<fixedVars, context_chunks, n_results, web_snippets, provider, prompt, chat_logs, execution_logs,
                   topoResult, throttleChecked>>

\* await save_chat_log(...)
RunChatLog ==
    /\ pc = "chat_log"
    /\ stages' = Append(stages, "logging")
    /\ Called("save_chat_log")
    /\ \E outcome \in Awaited :
          IF outcome = "ok"
          THEN /\ chat_logs' = Append(chat_logs,
                      [provider |-> provider, context_used |-> Len(context_chunks),
                       web_used |-> web_snippets # <<>>])
               /\ Continue("exec_log")
          ELSE /\ chat_logs' = chat_logs
               /\ IF outcome = "error" THEN Fail("logging", "chat log write error")
                  ELSE Cancelled("logging")
    /\ UNCHANGED <<fixedVars, context_chunks, n_results, web_snippets, provider, prompt, llm_backend,
                   execution_logs, topoResult, throttleChecked>>

\* await save_execution_log(status="success", ...); return {...}
RunExecLog ==
    /\ pc = "exec_log"
    /\ Called("save_execution_log")
    /\ \E outcome \in Awaited :
          IF outcome = "ok"
          THEN /\ execution_logs' = Append(execution_logs,
                      [status |-> "success", provider |-> provider, error_message |-> "",
                       context_used |-> Len(context_chunks), web_used |-> web_snippets # <<>>])
               /\ pc' = "done"
               /\ response' = [code |-> 200, detail |-> "answer", provider |-> provider,
                                context_used |-> Len(context_chunks),
                                web_used |-> web_snippets # <<>>]
               /\ UNCHANGED <<error_message, failedAt>>
          ELSE /\ execution_logs' = execution_logs
               /\ IF outcome = "error" THEN Fail("logging", "execution log write error")
                  ELSE Cancelled("logging")
    /\ UNCHANGED <<fixedVars, context_chunks, n_results, web_snippets, provider, prompt, llm_backend, chat_logs,
                   topoResult, throttleChecked, stages>>

\* the status of the response to an exception that leaves run_chat
StatusOf(detail) ==
    IF detail \in {"vector store error", "embedding error", "vector query error", "search error",
                   "provider error", "chat log write error", "execution log write error"}
    THEN 500 ELSE 400

\* except Exception as e: await save_execution_log(status="error", ...); raise
RunLogError ==
    /\ pc = "log_error"
    /\ Called("save_execution_log")
    /\ \E outcome \in Awaited :
          IF outcome = "ok"
          THEN /\ execution_logs' = Append(execution_logs,
                      [status |-> "error", provider |-> "", error_message |-> error_message,
                       context_used |-> 0, web_used |-> FALSE])
               /\ pc' = "raised"
               /\ response' = [code |-> StatusOf(error_message), detail |-> error_message]
          ELSE IF outcome = "error"
          THEN \* the write raises inside the handler: that exception leaves run_chat
               /\ execution_logs' = execution_logs
               /\ pc' = "raised"
               /\ response' = [code |-> 500, detail |-> "execution log write error"]
          ELSE /\ execution_logs' = execution_logs
               /\ pc' = "cancelled"
               /\ response' = [code |-> 0, detail |-> "cancelled"]
    /\ UNCHANGED <<fixedVars, context_chunks, n_results, web_snippets, provider, prompt, llm_backend, chat_logs,
                   topoResult, throttleChecked, stages, error_message, failedAt>>

\* validate_workflow: validate_topology(payload); return {"status": "valid"}
ValidateWorkflow ==
    /\ pc = "validate"
    /\ stages' = Append(stages, "validation")
    /\ LET result == validate_topology(graph)
       IN  /\ topoResult' = result
           /\ IF result.ok
              THEN /\ pc' = "done"
                   /\ response' = [code |-> 200, detail |-> "valid"]
              ELSE /\ pc' = "raised"
                   /\ response' = [code |-> 400, detail |-> Detail(result)]
    /\ UNCHANGED <<fixedVars, frameVars, throttleChecked, calls, error_message, failedAt>>

\* the endpoint string the handler passes to check_throttle
ThrottleEndpoint(kind) == IF kind = "collections" THEN "collections" ELSE "upload"

\* upload_knowledge and list_collections: if not await check_throttle(client_ip, endpoint=...)
ThrottleGate ==
    /\ pc \in {"upload", "collections"}
    /\ check_throttle(request.client_ip, ThrottleEndpoint(request.kind), now)
    /\ throttleChecked' = TRUE
    /\ IF lastCall'.allowed
       THEN /\ pc' = "body"
            /\ response' = response
       ELSE /\ pc' = "rejected"
            /\ response' = [code |-> 429, detail |-> "Too many requests"]
    /\ UNCHANGED <<settings, request, nreq, graph, topoResult, now, throttle_enabled, ncalls,
                   otherVars, frameVars, stages, calls, error_message, failedAt>>

\* the rest of upload_knowledge or list_collections, which either returns or raises
HandlerBody ==
    /\ pc = "body"
    /\ \E outcome \in Direct :
          IF outcome = "ok"
          THEN /\ pc' = "done"
               /\ response' = [code |-> 200, detail |-> request.kind]
          ELSE /\ pc' = "raised"
               /\ response' = [code |-> 500, detail |-> request.kind]
    /\ UNCHANGED <<fixedVars, frameVars, topoResult, throttleChecked, stages, calls,
                   error_message, failedAt>>

\* The response has been sent and the handler's frame is gone; the server
\* waits for the next request.
Finish ==
    /\ pc \in {"done", "raised", "rejected", "cancelled"}
    /\ pc' = "idle"
    /\ request' = NoRequest
    /\ graph' = EmptyGraph
    /\ topoResult' = NotValidated
    /\ throttleChecked' = FALSE
    /\ stages' = <<>>
    /\ calls' = NoCalls
    /\ context_chunks' = <<>>
    /\ web_snippets' = <<>>
    /\ provider' = ""
    /\ llm_backend' = ""
    /\ error_message' = ""
    /\ failedAt' = ""
    /\ chat_logs' = <<>>
    /\ execution_logs' = <<>>
    /\ response' = NoResponse
    /\ n_results' = None
    /\ prompt' = <<>>
    /\ UNCHANGED <<settings, nreq, throttleVars, otherVars>>

InitRun ==
    /\ ThrottleIdle
    /\ TopoIdle
    /\ settings \in [openai_api_key : BOOLEAN, gemini_api_key : BOOLEAN, serpapi_key : BOOLEAN]
    /\ request = NoRequest
    /\ nreq = 0
    /\ pc = "idle"
    /\ FreshHandler
    /\ OtherIdle

NextRun ==
    \/ Arrive
    \/ RunValidate \/ RunCollection \/ RunEmbed \/ RunQuery \/ RunWeb \/ RunCompose
    \/ RunGenerate \/ RunChatLog \/ RunExecLog \/ RunLogError
    \/ ValidateWorkflow
    \/ ThrottleGate \/ HandlerBody
    \/ Finish

SpecRun == InitRun /\ [][NextRun]_vars

(***************************************************************************)
(* Properties of the request handlers.                                     *)
(***************************************************************************)
Range(seq) == {seq[i] : i \in DOMAIN seq}

IsPrefix(a, b) == Len(a) <= Len(b) /\ SubSeq(b, 1, Len(a)) = a

Terminated == pc \in {"done", "raised", "cancelled"}

(***************************************************************************)
(* C2: every request to /chat/run and to /workflow/validate passes the     *)
(* check_throttle admission check for the client's identity before         *)
(* topology validation or any other pipeline stage starts.                 *)
(***************************************************************************)
C2_AdmissionBeforeValidation ==
    (request.kind \in {"run", "validate"} /\ stages # <<>>) => throttleChecked

(***************************************************************************)
(* C3: every run_chat request that the route let in produces exactly one   *)
(* execution-outcome record: status=success when all stages complete,      *)
(* otherwise status=error carrying the error message, whichever stage      *)
(* fails.  (Stated for the requests that ran to a response; a cancelled    *)
(* task is left out of the statement.)                                     *)
(***************************************************************************)
C3_ExactlyOneOutcome ==
    (request.kind = "run" /\ pc \in {"done", "raised"}) =>
        /\ Len(execution_logs) = 1
        /\ pc = "done" => execution_logs[1].status = "success"
        /\ pc = "raised" =>
              /\ execution_logs[1].status = "error"
              /\ execution_logs[1].error_message = error_message

(***************************************************************************)
(* C4: the stages of run_chat happen in the fixed order validation,        *)
(* retrieval (only if a knowledge_base node exists), web search (only if   *)
(* requested), composition, generation, logging; and once a stage fails or *)
(* the request is cancelled no later stage is started.                     *)
(***************************************************************************)
HasKb(g) == NodesOfType(g, "knowledge_base") # {}

WebAsked(g) ==
    \E i \in NodesOfType(g, "llm_engine") : Get(g.nodes[i].params, "web_search", FALSE)

ExpectedStages(g) ==
    <<"validation">>
    \o (IF HasKb(g) THEN <<"retrieval">> ELSE <<>>)
    \o (IF WebAsked(g) THEN <<"web_search">> ELSE <<>>)
    \o <<"composition", "generation", "logging">>

StagesInOrder ==
    request.kind = "run" =>
        /\ IsPrefix(stages, ExpectedStages(graph))
        /\ pc = "done" => stages = ExpectedStages(graph)

NoStageAfterFailure ==
    (request.kind = "run" /\ failedAt # "") =>
        /\ stages # <<>>
        /\ Last(stages) = failedAt
        /\ pc \in {"log_error", "raised", "cancelled"}

\* C4 as stated: ... and each outbound call is issued at most once per request.
C4_Original ==
    /\ StagesInOrder
    /\ NoStageAfterFailure
    /\ \A op \in DOMAIN calls : calls[op] <= 1

\* C4 as amended: each outbound call is issued at most once per request,
\* except that save_execution_log is issued a second time, to record
\* status=error, when a stage has failed after the first outcome write was
\* issued, that is when the success outcome write itself failed.
C4_StagesOnceInOrder ==
    /\ StagesInOrder
    /\ NoStageAfterFailure
    /\ \A op \in DOMAIN calls \ {"save_execution_log"} : calls[op] <= 1
    /\ calls.save_execution_log <= 2
    /\ calls.save_execution_log = 2 =>
          /\ failedAt = "logging"
          /\ error_message = "execution log write error"
          /\ execution_logs = <<>> \/ execution_logs[1].status = "error"

\* C4 witness: a run with retrieval and web search went through all six
\* stages, its success outcome write failed, and the error outcome was
\* written by a second save_execution_log call.
C4_Witness ==
    /\ request.kind = "run"
    /\ pc = "raised"
    /\ stages = <<"validation", "retrieval", "web_search", "composition", "generation",
                  "logging">>
    /\ calls = [collection |-> 1, embed |-> 1, query |-> 1, search |-> 1, llm |-> 1,
                save_chat_log |-> 1, save_execution_log |-> 2]
    /\ Len(execution_logs) = 1

(***************************************************************************)
(* C5: for any graph that lacks a user_query, llm_engine or output node,   *)
(* validate_topology fails with the invalid-topology error, and when such  *)
(* a graph is submitted to run_chat no outbound call to the embedding,     *)
(* vector-store, web-search or generation backend is made.                 *)
(***************************************************************************)
C5_MissingRoleNoExternalCall ==
    (request.kind = "run" /\ Violates4(graph)) =>
        /\ stages # <<>> =>
              /\ ~topoResult.ok
              /\ topoResult.rule \in 1..4
              /\ stages = <<"validation">>
              /\ error_message = topoResult.detail
        /\ calls.collection = 0 /\ calls.embed = 0 /\ calls.query = 0
        /\ calls.search = 0 /\ calls.llm = 0
        /\ llm_backend = ""

\* C5 witness: a workflow with a knowledge base that asks for a web search
\* but has no output node was run; validation failed on the missing role,
\* the error outcome was recorded and no backend was called.
C5_Witness ==
    /\ request.kind = "run"
    /\ NodesOfType(graph, "output") = {}
    /\ HasKb(graph) /\ WebAsked(graph)
    /\ settings.serpapi_key /\ settings.openai_api_key
    /\ pc = "raised"
    /\ topoResult.rule = 4
    /\ topoResult.arg = "output"
    /\ response.code = 400
    /\ calls = [NoCalls EXCEPT !.save_execution_log = 1]

(***************************************************************************)
(* C11: for every successful run, the returned result and the success      *)
(* outcome record report context_used = the number of snippets retrieved   *)
(* (0 without a knowledge_base node), web_used = true exactly when at      *)
(* least one web snippet was put into the prompt, and provider = the node's*)
(* provider parameter if given, otherwise the first of openai, gemini with *)
(* a configured credential.                                                *)
(***************************************************************************)
LlmParamsOf(g) == g.nodes[CHOOSE i \in NodesOfType(g, "llm_engine") : TRUE].params

ProviderGiven(g) == Get(LlmParamsOf(g), "provider", "") # ""

ExpectedProvider(g) ==
    IF ProviderGiven(g) THEN LlmParamsOf(g)["provider"]
    ELSE LET preference == <<"openai", "gemini">>
             configured == {i \in DOMAIN preference : settings[preference[i] \o "_api_key"]}
         IN  IF configured = {} THEN "none"
             ELSE preference[CHOOSE i \in configured : \A j \in configured : i <= j]

Count(seq, piece) == Cardinality({i \in DOMAIN seq : seq[i] = piece})

C11_SuccessReport ==
    (request.kind = "run" /\ pc = "done") =>
        /\ Len(execution_logs) = 1
        /\ LET outcome == execution_logs[1]
           IN  /\ outcome.status = "success"
               /\ response.context_used = Len(context_chunks)
               /\ response.context_used = Count(prompt, "doc")
               /\ ~HasKb(graph) => response.context_used = 0
               /\ outcome.context_used = response.context_used
               /\ response.web_used <=> Count(prompt, "hit") >= 1
               /\ outcome.web_used = response.web_used
               /\ response.provider = ExpectedProvider(graph)
               /\ outcome.provider = response.provider

\* C11 witness: the end-to-end scenario: top_k = 2, provider "openai", no
\* web search; the run succeeded with context_used = 2, web_used = false.
C11_Witness ==
    /\ request.kind = "run"
    /\ pc = "done"
    /\ HasKb(graph)
    /\ LlmParamsOf(graph) = [provider |-> "openai"]
    /\ response.context_used = 2
    /\ ~response.web_used
    /\ response.provider = "openai"
    /\ execution_logs[1].status = "success"

\* C11 witness: no provider named by the node, only the Gemini credential
\* configured, a web search that returned snippets.
C11_WitnessDefault ==
    /\ request.kind = "run"
    /\ pc = "done"
    /\ ~ProviderGiven(graph)
    /\ ~settings.openai_api_key
    /\ response.provider = "gemini"
    /\ response.web_used

(***************************************************************************)
(* C12: with a knowledge_base node, run_chat issues exactly one embedding  *)
(* call and exactly one nearest-neighbour query, asks for min(top_k,       *)
(* ceiling) results with top_k = 4 when the node gives none, never uses    *)
(* more snippets than the node's top_k or the ceiling, and keeps the order *)
(* returned by the store.                                                  *)
(***************************************************************************)
KbParamsOf(g) == g.nodes[CHOOSE i \in NodesOfType(g, "knowledge_base") : TRUE].params

NodeTopK(g) == IF "top_k" \in DOMAIN KbParamsOf(g) THEN KbParamsOf(g).top_k ELSE TopKDefault

RetrievalDone == pc \in {"web", "compose", "generate", "chat_log", "exec_log", "done"}

C12_OneQueryClamped ==
    (request.kind = "run" /\ HasKb(graph)) =>
        /\ calls.embed <= 1
        /\ calls.query <= 1
        /\ Len(context_chunks) <= NodeTopK(graph)
        /\ Len(context_chunks) <= TopKCeiling
        /\ context_chunks = Ranked(Len(context_chunks))
        /\ calls.query = 1 =>
              /\ calls.embed = 1
              /\ n_results = IF NodeTopK(graph) <= TopKCeiling THEN NodeTopK(graph)
                             ELSE TopKCeiling
        /\ RetrievalDone =>
              /\ calls.embed = 1 /\ calls.query = 1
              /\ Len(context_chunks) <= n_results

\* C12 witness: the node gives no top_k, the collection holds more
\* documents than the ceiling, and the retrieval returned the first three.
C12_Witness ==
    /\ request.kind = "run"
    /\ HasKb(graph)
    /\ "top_k" \notin DOMAIN KbParamsOf(graph)
    /\ RetrievalDone
    /\ n_results = 3
    /\ context_chunks = <<1, 2, 3>>

(***************************************************************************)
(* C13: without a knowledge_base node run_chat uses an empty context       *)
(* (context_used = 0) and makes no embedding call and no vector-store      *)
(* call.                                                                   *)
(***************************************************************************)
C13_NoKbNoRetrieval ==
    (request.kind = "run" /\ ~HasKb(graph)) =>
        /\ context_chunks = <<>>
        /\ calls.collection = 0 /\ calls.embed = 0 /\ calls.query = 0
        /\ n_results = None
        /\ "retrieval" \notin Range(stages)
        /\ Count(prompt, "doc") = 0
        /\ pc = "done" => response.context_used = 0 /\ execution_logs[1].context_used = 0

\* C13 witness: a workflow without a knowledge base ran to its end.
C13_Witness ==
    /\ request.kind = "run"
    /\ ~HasKb(graph)
    /\ pc = "done"
    /\ calls.llm = 1
    /\ response.context_used = 0

(***************************************************************************)
(* build_prompt on its own: any question, any context and web-snippet      *)
(* lists of at most MaxSnippets entries, any custom prompt.                *)
(***************************************************************************)
Texts == {<<>>, <<"text">>}

TextLists == UNION {[1..n -> Texts] : n \in 0..MaxSnippets}

PromptInputs ==
    [question : {<<>>, <<"What is X?">>},
     context : TextLists,
     web_snippets : TextLists,
     custom_prompt : {NoneStr, Str(<<>>), Str(<<"Be brief.">>), Str(<<"Be brief.", NL, NL>>)}]

InitPrompt ==
    /\ ThrottleIdle
    /\ TopoIdle
    /\ HandlerIdle
    /\ promptArgs \in PromptInputs
    /\ composed = NotComposed
    /\ history = NoHistory
    /\ chat_history = NotTrimmed
    /\ messages = NotSent
    /\ LoopIdle
    /\ AuxIdle

\* prompt = build_prompt(question, context, web_snippets, custom_prompt)
BuildPrompt ==
    /\ composed = NotComposed
    /\ composed' = build_prompt(promptArgs.question, promptArgs.context,
                                promptArgs.web_snippets, promptArgs.custom_prompt)
    /\ UNCHANGED <<throttleVars, topoVars, handlerVars, promptArgs, history, chat_history,
                   messages, loopVars, auxVars>>

NextPrompt == BuildPrompt

SpecPrompt == InitPrompt /\ [][NextPrompt]_vars

(***************************************************************************)
(* C14: build_prompt returns the blocks in the fixed order [custom prompt, *)
(* if non-empty], [Context block, if the context list is non-empty], [Web  *)
(* search hints block, if the web-snippet list is non-empty], the Question *)
(* block, the closing instruction, with exactly one blank-line separator   *)
(* between consecutive present blocks; an omitted block leaves neither a   *)
(* header nor a separator; build_prompt(q, [], [], None) is the question   *)
(* block plus the closing instruction; equal inputs give equal output.     *)
(***************************************************************************)
BlankLine == <<NL, NL>>

\* the first n parts, each one after the first preceded by the separator
RECURSIVE Interleaved(_, _, _)
Interleaved(sep, parts, n) ==
    IF n = 0 THEN <<>>
    ELSE IF n = 1 THEN parts[1]
    ELSE Interleaved(sep, parts, n - 1) \o sep \o parts[n]

\* a block that is present is followed by one blank line, an absent one is nothing
Block(present, text) == IF present THEN text \o BlankLine ELSE <<>>

QuestionBlock(a) == <<"Question: ">> \o a.question

ClosingInstruction == <<"Answer concisely. If unsure, say you are unsure.">>

ExpectedPrompt(a) ==
    Block(a.custom_prompt.given /\ a.custom_prompt.text # <<>>, a.custom_prompt.text)
    \o Block(a.context # <<>>,
             <<"Context:", NL>> \o Interleaved(<<NL, "---", NL>>, a.context, Len(a.context)))
    \o Block(a.web_snippets # <<>>,
             <<"Web search hints:", NL>>
             \o Interleaved(<<NL>>, a.web_snippets, Len(a.web_snippets)))
    \o QuestionBlock(a) \o BlankLine \o ClosingInstruction

C14_PromptBlocks ==
    composed # NotComposed =>
        /\ composed = ExpectedPrompt(promptArgs)
        /\ Count(composed, "Context:") = IF promptArgs.context # <<>> THEN 1 ELSE 0
        /\ Count(composed, "Web search hints:") = IF promptArgs.web_snippets # <<>> THEN 1 ELSE 0
        /\ (/\ promptArgs.context = <<>>
            /\ promptArgs.web_snippets = <<>>
            /\ promptArgs.custom_prompt = NoneStr)
           => composed = QuestionBlock(promptArgs) \o BlankLine \o ClosingInstruction

\* C14 witness: a prompt was composed from a custom prompt, two context
\* entries and two web snippets.
C14_Witness ==
    /\ composed # NotComposed
    /\ Truthy(promptArgs.custom_prompt)
    /\ Len(promptArgs.context) = 2
    /\ Len(promptArgs.web_snippets) = 2
    /\ Len(composed) > 10

\* C14 witness: build_prompt(q, [], [], None) was composed.
C14_WitnessBare ==
    /\ promptArgs.context = <<>>
    /\ promptArgs.web_snippets = <<>>
    /\ promptArgs.custom_prompt = NoneStr
    /\ composed = <<"Question: ", "What is X?", NL, NL,
                    "Answer concisely. If unsure, say you are unsure.">>

(***************************************************************************)
(* C15: for every provider selection, if the credential of the selected    *)
(* provider is not configured, call_llm fails with the missing-key error   *)
(* and no call to any generation backend is made for that request.  (A     *)
(* provider name other than "gemini" is served by the OpenAI branch of     *)
(* call_llm, so its credential is the OpenAI key.)                         *)
(***************************************************************************)
CredentialConfigured(p) ==
    \/ p = "gemini" /\ settings.gemini_api_key
    \/ p # "gemini" /\ settings.openai_api_key

MissingKeyErrors ==
    {"Gemini provider selected but GEMINI_API_KEY is missing",
     "OpenAI provider selected but OPENAI_API_KEY is missing"}

C15_MissingKeyNoCall ==
    (/\ request.kind = "run"
     /\ "generation" \in Range(stages)
     /\ ~CredentialConfigured(provider)) =>
        /\ calls.llm = 0
        /\ llm_backend = ""
        /\ failedAt = "generation"
        /\ error_message \in MissingKeyErrors
        /\ (error_message = "Gemini provider selected but GEMINI_API_KEY is missing")
              <=> (provider = "gemini")
        /\ pc \in {"log_error", "raised", "cancelled"}
        /\ chat_logs = <<>>
        /\ \A i \in DOMAIN execution_logs :
              /\ execution_logs[i].status = "error"
              /\ execution_logs[i].error_message = error_message

\* C15 witness: the node names gemini, only the OpenAI credential is
\* configured; the run failed at generation with the missing-key error, the
\* caller got 400 and no generation backend was called.
C15_Witness ==
    /\ request.kind = "run"
    /\ pc = "raised"
    /\ provider = "gemini"
    /\ settings.openai_api_key /\ ~settings.gemini_api_key
    /\ failedAt = "generation"
    /\ calls.llm = 0
    /\ response = [code |-> 400,
                   detail |-> "Gemini provider selected but GEMINI_API_KEY is missing"]

(***************************************************************************)
(* The chat history: run_chat keeps the last entries of the submitted      *)
(* history and call_llm builds the message list of the OpenAI backend from *)
(* them.  The i-th submitted turn carries a text that names i, so that the *)
(* place of every turn can be followed.                                    *)
(***************************************************************************)
HistoryKept == 5       \* chat_request.history[-5:]

TurnKinds == {"user", "assistant", "system", "user, empty content"}

Turn(kind, i) ==
    IF kind = "user, empty content" THEN [role |-> "user", content |-> <<>>]
    ELSE [role |-> kind, content |-> <<"turn", ToString(i)>>]

Histories ==
    {NoHistory} \cup
    UNION {{[given |-> TRUE, turns |-> [i \in 1..n |-> Turn(kinds[i], i)]] :
               kinds \in [1..n -> TurnKinds]} : n \in 0..MaxHistory}

\* s[-n:] without the bound: the whole list
WholeList(s, n) == s

\* s[-n:]
LastN(s, n) == SubSeq(s, IF Len(s) > n THEN Len(s) - n + 1 ELSE 1, Len(s))

SystemMessage ==
    [role |-> "system",
     content |-> <<"You are an assistant that answers using provided context first. Be concise.">>]

ComposedPrompt == <<"prompt">>

\* for turn in history: if turn.get("role") in {"user", "assistant"} and turn.get("content"): ...
RECURSIVE TurnsSent(_)
TurnsSent(turns) ==
    IF turns = <<>> THEN <<>>
    ELSE LET turn == Head(turns)
         IN  (IF /\ Get(turn, "role", "") \in {"user", "assistant"}
                 /\ Get(turn, "content", <<>>) # <<>>
              THEN <<[role |-> turn.role, content |-> turn.content]>>
              ELSE <<>>) \o TurnsSent(Tail(turns))

InitMessages ==
    /\ ThrottleIdle
    /\ TopoIdle
    /\ HandlerIdle
    /\ promptArgs = NoArgs
    /\ composed = NotComposed
    /\ history \in Histories
    /\ chat_history = NotTrimmed
    /\ messages = NotSent
    /\ LoopIdle
    /\ AuxIdle

\* chat_history = chat_request.history[-5:] if chat_request.history else []
TrimHistory ==
    /\ ~chat_history.done
    /\ chat_history' = [done |-> TRUE,
                        turns |-> IF history.given /\ history.turns # <<>>
                                  THEN LastN(history.turns, HistoryKept) ELSE <<>>]
    /\ UNCHANGED <<throttleVars, topoVars, handlerVars, promptArgs, composed, history, messages,
                   loopVars, auxVars>>

\* call_llm, OpenAI branch: messages = [system] + turns + [{"role": "user", "content": prompt}]
SendMessages ==
    /\ chat_history.done
    /\ messages = NotSent
    /\ messages' = <<SystemMessage>>
                   \o (IF chat_history.turns # <<>> THEN TurnsSent(chat_history.turns) ELSE <<>>)
                   \o <<[role |-> "user", content |-> ComposedPrompt]>>
    /\ UNCHANGED <<throttleVars, topoVars, handlerVars, promptArgs, composed, history,
                   chat_history, loopVars, auxVars>>

NextMessages == TrimHistory \/ SendMessages

SpecMessages == InitMessages /\ [][NextMessages]_vars

(***************************************************************************)
(* C16: the message list sent to the OpenAI backend is the fixed system    *)
(* instruction, then, in their original order, the turns of the most       *)
(* recent 5 history entries whose role is user or assistant, then the      *)
(* composed prompt as the last user message; never more than 5 history     *)
(* turns, whatever the length of the submitted history.                    *)
(***************************************************************************)
\* the places, in the submitted history, of the turns that are to be sent
RecentPlaces == {i \in DOMAIN history.turns : i > Len(history.turns) - 5}

PlacesByRole == {i \in RecentPlaces : history.turns[i].role \in {"user", "assistant"}}

PlacesByRoleAndContent == {i \in PlacesByRole : history.turns[i].content # <<>>}

\* the k-th smallest element of a set of places
Nth(places, k) == CHOOSE i \in places : Cardinality({j \in places : j <= i}) = k

MessagesFor(places) ==
    /\ Len(messages) = Cardinality(places) + 2
    /\ messages[1] = SystemMessage
    /\ \A k \in 1..Cardinality(places) : messages[k + 1] = history.turns[Nth(places, k)]
    /\ messages[Len(messages)] = [role |-> "user", content |-> ComposedPrompt]
    /\ Len(messages) <= 5 + 2

\* C16 as stated: every recent turn with role user or assistant is sent.
C16_Original == messages # NotSent => MessagesFor(PlacesByRole)

\* C16 as amended: ... the turns of the most recent 5 history entries whose
\* role is user or assistant and whose content is not empty (turns with any
\* other role, and turns with empty content, are dropped) ...
C16_MessageList == messages # NotSent => MessagesFor(PlacesByRoleAndContent)

\* C16 witness: six turns were submitted, the first is left out by the
\* bound, and of the other five one has another role and one has no content.
C16_Witness ==
    /\ Len(history.turns) = 6
    /\ history.turns[1].role = "user" /\ history.turns[1].content # <<>>
    /\ history.turns[3].role = "system"
    /\ history.turns[5].content = <<>>
    /\ Len(messages) = 5
    /\ messages[2] = history.turns[2]
    /\ messages[3] = history.turns[4]
    /\ messages[4] = history.turns[6]

(***************************************************************************)
(* C17: in run_chat a web-search call is issued only when the generation   *)
(* node's web_search parameter is set and the search credential is         *)
(* configured; the number of web snippets placed in the prompt never       *)
(* exceeds the fixed cap (2), independently of the retrieval top_k; and    *)
(* web_used is true only if a search was made and returned at least one    *)
(* snippet.                                                                *)
(***************************************************************************)
C17_WebSearchGated ==
    request.kind = "run" =>
        /\ calls.search <= 1
        /\ calls.search = 1 => WebAsked(graph) /\ settings.serpapi_key
        /\ Len(web_snippets) <= 2
        /\ Count(prompt, "hit") <= 2
        /\ web_snippets # <<>> => calls.search = 1
        /\ \A i \in DOMAIN chat_logs : chat_logs[i].web_used => calls.search = 1
        /\ \A i \in DOMAIN execution_logs :
              execution_logs[i].web_used => calls.search = 1 /\ web_snippets # <<>>
        /\ pc = "done" => (response.web_used => calls.search = 1 /\ web_snippets # <<>>)

\* C17 witness: a run with three context snippets and a search that
\* returned more results than the cap ended with two web snippets.
C17_Witness ==
    /\ request.kind = "run"
    /\ pc = "done"
    /\ Len(context_chunks) = 3
    /\ calls.search = 1
    /\ web_snippets = <<1, 2>>
    /\ Count(prompt, "hit") = 2
    /\ response.web_used

\* C17 witness: the node asks for a web search, no search credential is
\* configured, and the run ended without a search and with web_used false.
C17_WitnessNoCredential ==
    /\ request.kind = "run"
    /\ pc = "done"
    /\ WebAsked(graph)
    /\ ~settings.serpapi_key
    /\ calls.search = 0
    /\ ~response.web_used

(***************************************************************************)
(* C20: after every check_throttle call for an identity and class, whether *)
(* it is admitted or rejected, the timestamp list stored for that identity *)
(* and class contains no entry that is 60 seconds old or older relative to *)
(* the time of that call.                                                  *)
(***************************************************************************)
StoredFor(endpoint, ip) ==
    Get(IF IsCollections(endpoint) THEN collection_request_timestamps ELSE request_timestamps,
        ip, <<>>)

C20_StoredListPruned ==
    lastCall # NoCall =>
        \A i \in DOMAIN StoredFor(lastCall.endpoint, lastCall.ip) :
            lastCall.t - StoredFor(lastCall.endpoint, lastCall.ip)[i] < 60 * TicksPerSecond

\* The part of C20 that holds: the list an admitted call stores is pruned.
C20_AdmittedListPruned ==
    (lastCall # NoCall /\ lastCall.allowed) =>
        \A i \in DOMAIN StoredFor(lastCall.endpoint, lastCall.ip) :
            lastCall.t - StoredFor(lastCall.endpoint, lastCall.ip)[i] < 60 * TicksPerSecond

(***************************************************************************)
(* Concurrent requests.  Every handler is an "async def": the requests are *)
(* coroutines of one asyncio event loop, which runs one coroutine at a     *)
(* time and switches only where the running one suspends, at an await of   *)
(* an operation that really waits.  A coroutine is followed statement by   *)
(* statement through the code that touches the throttle tables and the     *)
(* two singletons:                                                         *)
(*   list_collections: check_throttle, get_chroma_client                   *)
(*   upload_knowledge: check_throttle, file.read, embed_texts,             *)
(*                     get_chroma_collection                               *)
(*   run_chat:         get_chroma_collection, embed_texts                  *)
(***************************************************************************)
Tasks == 1..MaxTasks

LoopKinds == {"collections", "upload", "run"}

\* how far the clock moves between two readings, when it does: 6 s, which
\* is the min_interval of list_collections, or just over an hour
LoopDeltas == {60, 36001}

\* the first statement of a handler that matters here
FirstPos(kind) == IF kind = "run" THEN "cc_check" ELSE "ct_cleanup"

NewTask(kind, ip) ==
    [kind |-> kind, ip |-> ip, pos |-> FirstPos(kind), current_time |-> None,
     timestamps |-> <<>>, admitted |-> FALSE, client |-> None, model |-> None]

\* Suspends with a suspension between the check of a singleton and its construction.
SuspendsInSingleton(pos) ==
    pos \in {"up_read", "emb_openai", "hf_encode", "cc_check", "hf_check"}

\* Suspends with a suspension between the read of the table and the store.
SuspendsInThrottle(pos) ==
    pos \in {"up_read", "emb_openai", "hf_encode", "ct_prune"}

\* The statements at which the running coroutine suspends: await file.read(),
\* await client.embeddings.create(...), await asyncio.to_thread(...).  The
\* await of check_throttle and of cleanup_old_timestamps runs the callee
\* in place, and neither callee awaits anything that waits.
Suspends(pos) == pos \in {"up_read", "emb_openai", "hf_encode"}

\* coroutine t may execute its next statement
Runnable(t) ==
    /\ t \in DOMAIN tasks
    /\ tasks[t].pos # "done"
    /\ running \in {0, t}

\* coroutine t has executed the statement at its position and goes on as next
Goes(t, next) ==
    /\ tasks' = [tasks EXCEPT ![t] = next]
    /\ running' = IF next.pos = "done" \/ Suspends(tasks[t].pos) THEN 0 ELSE t

At(t, pos) == Runnable(t) /\ tasks[t].pos = pos

EndpointOf(kind) == IF kind = "collections" THEN "collections" ELSE "upload"

TableOf(kind) ==
    IF IsCollections(EndpointOf(kind)) THEN collection_request_timestamps
    ELSE request_timestamps

restVars == <<topoVars, handlerVars, promptArgs, composed, history, chat_history, messages,
              throttle_enabled, ncalls, lastCall, lastAdmit, lastReject, nticks, auxVars>>

tableVars == <<last_cleanup, request_timestamps, collection_request_timestamps>>

singletonVars == <<chroma_client, hf_model, built>>

InitLoop ==
    /\ ThrottleIdle
    /\ TopoIdle
    /\ settings \in {[openai_api_key |-> k, gemini_api_key |-> FALSE, serpapi_key |-> FALSE] :
                        k \in BOOLEAN}
    /\ request = NoRequest
    /\ nreq = 0
    /\ pc = "idle"
    /\ FreshHandler
    /\ promptArgs = NoArgs
    /\ composed = NotComposed
    /\ history = NoHistory
    /\ chat_history = NotTrimmed
    /\ messages = NotSent
    \* the first request comes from ip1: the code treats all addresses alike
    /\ tasks \in {f \in [Tasks -> {NewTask(kind, ip) : kind \in LoopKinds, ip \in Ips}] :
                      f[1].ip = "ip1"}
    /\ running = 0
    /\ chroma_client = None
    /\ hf_model = None
    /\ built = [chroma |-> 0, hf |-> 0]
    /\ admits = <<>>
    /\ nticks = 0
    /\ AuxIdle

\* Time passes.  The clock is read by cleanup_old_timestamps and by
\* check_throttle only, in one run of a coroutine, so the instants told
\* apart are those at which the loop is between two coroutines and a call of
\* check_throttle is still to come; what matters is how far the clock has
\* moved from one reading to the next.
Advance ==
    /\ running = 0
    /\ \E t \in Tasks : tasks[t].pos = "ct_cleanup"
    /\ nticks = 0
    /\ nticks' = 1
    /\ \E d \in LoopDeltas : now' = now + d
    /\ UNCHANGED <<topoVars, handlerVars, promptArgs, composed, history, chat_history, messages,
                   throttle_enabled, ncalls, lastCall, lastAdmit, lastReject, tableVars,
                   tasks, running, singletonVars, admits, auxVars>>

\* await cleanup_old_timestamps()
CtCleanup ==
    \E t \in Tasks :
        /\ At(t, "ct_cleanup")
        /\ last_cleanup' = IF CleanupDue(now) THEN now ELSE last_cleanup
        /\ request_timestamps' = CleanedTable(request_timestamps, now)
        /\ collection_request_timestamps' = CleanedTable(collection_request_timestamps, now)
        /\ nticks' = 0
        /\ Goes(t, [tasks[t] EXCEPT !.pos = "ct_enabled"])
        /\ UNCHANGED <<topoVars, handlerVars, promptArgs, composed, history, chat_history,
                       messages, throttle_enabled, ncalls, lastCall, lastAdmit, lastReject,
                       now, singletonVars, admits, auxVars>>

\* if not settings.throttle_enabled: return True
CtEnabled ==
    \E t \in Tasks :
        /\ At(t, "ct_enabled")
        /\ IF throttle_enabled
           THEN Goes(t, [tasks[t] EXCEPT !.pos = "ct_read"])
           ELSE Goes(t, [tasks[t] EXCEPT !.admitted = TRUE,
                            !.pos = IF tasks[t].kind = "upload" THEN "up_read" ELSE "cc_check"])
        /\ UNCHANGED <<restVars, now, tableVars, singletonVars, admits>>

\* current_time = time.time(); timestamps = table.get(client_ip, [])
CtRead ==
    \E t \in Tasks :
        /\ At(t, "ct_read")
        /\ Goes(t, [tasks[t] EXCEPT !.current_time = now,
                       !.timestamps = Get(TableOf(tasks[t].kind), tasks[t].ip, <<>>),
                       !.pos = "ct_prune"])
        /\ UNCHANGED <<restVars, now, tableVars, singletonVars, admits>>

\* timestamps = [ts for ts in timestamps if current_time - ts < 60]
CtPrune ==
    \E t \in Tasks :
        /\ At(t, "ct_prune")
        /\ Goes(t, [tasks[t] EXCEPT !.timestamps = Pruned(@, tasks[t].current_time),
                       !.pos = "ct_compare"])
        /\ UNCHANGED <<restVars, now, tableVars, singletonVars, admits>>

\* if timestamps: ... if time_since_last < min_interval: return False
\* (and the handler raises 429)
CtCompare ==
    \E t \in Tasks :
        /\ At(t, "ct_compare")
        /\ IF Throttled(tasks[t].timestamps, tasks[t].current_time, EndpointOf(tasks[t].kind))
           THEN Goes(t, [tasks[t] EXCEPT !.pos = "done", !.timestamps = <<>>,
                                         !.current_time = None])
           ELSE Goes(t, [tasks[t] EXCEPT !.pos = "ct_store"])
        /\ UNCHANGED <<restVars, now, tableVars, singletonVars, admits>>

\* timestamps.append(current_time); table[client_ip] = timestamps; return True
CtStore ==
    \E t \in Tasks :
        /\ At(t, "ct_store")
        /\ LET me == tasks[t]
               stored == Append(me.timestamps, me.current_time)
           IN  /\ IF IsCollections(EndpointOf(me.kind))
                  THEN /\ collection_request_timestamps' =
                             Put(collection_request_timestamps, me.ip, stored)
                       /\ request_timestamps' = request_timestamps
                  ELSE /\ request_timestamps' = Put(request_timestamps, me.ip, stored)
                       /\ collection_request_timestamps' = collection_request_timestamps
               /\ admits' = Append(admits, [ip |-> me.ip,
                                            collections |-> IsCollections(EndpointOf(me.kind)),
                                            t |-> me.current_time])
               /\ Goes(t, [me EXCEPT !.timestamps = <<>>, !.current_time = None,
                              !.admitted = TRUE,
                              !.pos = IF me.kind = "upload" THEN "up_read" ELSE "cc_check"])
        /\ UNCHANGED <<restVars, now, last_cleanup, singletonVars>>

\* upload_knowledge: data = await file.read(); text = ...; chunks = ...
UpRead ==
    \E t \in Tasks :
        /\ At(t, "up_read")
        /\ Goes(t, [tasks[t] EXCEPT !.pos = "embed"])
        /\ UNCHANGED <<restVars, now, tableVars, singletonVars, admits>>

\* embed_texts: if settings.openai_api_key: ... else: return await embed_with_hf(...)
EmbedTexts ==
    \E t \in Tasks :
        /\ At(t, "embed")
        /\ Goes(t, [tasks[t] EXCEPT
                       !.pos = IF settings.openai_api_key THEN "emb_openai" ELSE "hf_check"])
        /\ UNCHANGED <<restVars, now, tableVars, singletonVars, admits>>

\* where the handler goes on after embed_texts has returned
AfterEmbed(kind) == IF kind = "run" THEN "done" ELSE "cc_check"

\* response = await client.embeddings.create(...)
EmbOpenai ==
    \E t \in Tasks :
        /\ At(t, "emb_openai")
        /\ Goes(t, [tasks[t] EXCEPT !.pos = AfterEmbed(tasks[t].kind)])
        /\ UNCHANGED <<restVars, now, tableVars, singletonVars, admits>>

\* embed_with_hf: if _hf_model is None:
HfCheck ==
    \E t \in Tasks :
        /\ At(t, "hf_check")
        /\ Goes(t, [tasks[t] EXCEPT
                       !.pos = IF hf_model = None THEN "hf_construct" ELSE "hf_encode"])
        /\ UNCHANGED <<restVars, now, tableVars, singletonVars, admits>>

\* _hf_model = SentenceTransformer(...), which may raise
HfConstruct ==
    \E t \in Tasks :
        /\ At(t, "hf_construct")
        /\ \E outcome \in Direct :
              IF outcome = "ok"
              THEN /\ hf_model' = built.hf + 1
                   /\ built' = [built EXCEPT !.hf = @ + 1]
                   /\ Goes(t, [tasks[t] EXCEPT !.pos = "hf_encode"])
              ELSE /\ UNCHANGED <<hf_model, built>>
                   /\ Goes(t, [tasks[t] EXCEPT !.pos = "done"])
        /\ UNCHANGED <<restVars, now, tableVars, chroma_client, admits>>

\* return await asyncio.to_thread(_encode), where _encode uses _hf_model
HfEncode ==
    \E t \in Tasks :
        /\ At(t, "hf_encode")
        /\ Goes(t, [tasks[t] EXCEPT !.model = hf_model, !.pos = AfterEmbed(tasks[t].kind)])
        /\ UNCHANGED <<restVars, now, tableVars, singletonVars, admits>>

\* get_chroma_client: if _chroma_client is None:
CcCheck ==
    \E t \in Tasks :
        /\ At(t, "cc_check")
        /\ Goes(t, [tasks[t] EXCEPT
                       !.pos = IF chroma_client = None THEN "cc_construct" ELSE "cc_return"])
        /\ UNCHANGED <<restVars, now, tableVars, singletonVars, admits>>

\* _chroma_client = chromadb.PersistentClient(path=...), which may raise
CcConstruct ==
    \E t \in Tasks :
        /\ At(t, "cc_construct")
        /\ \E outcome \in Direct :
              IF outcome = "ok"
              THEN /\ chroma_client' = built.chroma + 1
                   /\ built' = [built EXCEPT !.chroma = @ + 1]
                   /\ Goes(t, [tasks[t] EXCEPT !.pos = "cc_return"])
              ELSE /\ UNCHANGED <<chroma_client, built>>
                   /\ Goes(t, [tasks[t] EXCEPT !.pos = "done"])
        /\ UNCHANGED <<restVars, now, tableVars, hf_model, admits>>

\* return _chroma_client (and, for a collection, client.get_or_create_collection(name)).
\* What list_collections and upload_knowledge do next touches nothing shared.
CcReturn ==
    \E t \in Tasks :
        /\ At(t, "cc_return")
        /\ Goes(t, [tasks[t] EXCEPT !.client = chroma_client,
                       !.pos = IF tasks[t].kind = "run" THEN "embed" ELSE "done"])
        /\ UNCHANGED <<restVars, now, tableVars, singletonVars, admits>>

NextLoop ==
    \/ Advance
    \/ CtCleanup \/ CtEnabled \/ CtRead \/ CtPrune \/ CtCompare \/ CtStore
    \/ UpRead \/ EmbedTexts \/ EmbOpenai
    \/ HfCheck \/ HfConstruct \/ HfEncode
    \/ CcCheck \/ CcConstruct \/ CcReturn

SpecLoop == InitLoop /\ [][NextLoop]_vars

(***************************************************************************)
(* C18: under any interleaving of concurrently executing requests, the     *)
(* vector-store client (get_chroma_client) and the fallback embedding      *)
(* model (embed_with_hf) are each constructed at most once per process:    *)
(* the check "handle is None" and the assignment of the handle are never   *)
(* interleaved with another request's check, and every request afterwards  *)
(* uses the same instance.                                                 *)
(***************************************************************************)
Between(check) == {t \in Tasks : tasks[t].pos = check}

C18_SingletonsBuiltOnce ==
    /\ built.chroma <= 1
    /\ built.hf <= 1
    \* a coroutine that has seen None and has not assigned yet is the running one
    /\ \A t \in Between("cc_construct") \cup Between("hf_construct") : running = t
    /\ Cardinality(Between("cc_construct")) <= 1
    /\ Cardinality(Between("hf_construct")) <= 1
    /\ \A t \in Between("cc_construct") : chroma_client = None
    /\ \A t \in Between("hf_construct") : hf_model = None
    /\ \A t, u \in Tasks :
          /\ (tasks[t].client # None /\ tasks[u].client # None)
                => tasks[t].client = tasks[u].client
          /\ (tasks[t].model # None /\ tasks[u].model # None)
                => tasks[t].model = tasks[u].model
    /\ \A t \in Tasks : tasks[t].client # None => tasks[t].client = chroma_client
    /\ \A t \in Tasks : tasks[t].model # None => tasks[t].model = hf_model

\* C18 witness: two requests that both needed the client and the fallback
\* model were served while the other was suspended, and each handle was
\* constructed once and given to both.
C18_Witness ==
    /\ \A t \in {1, 2} : tasks[t].pos = "done" /\ tasks[t].client = 1 /\ tasks[t].model = 1
    /\ tasks[1].kind = "upload" /\ tasks[2].kind = "run"
    /\ built = [chroma |-> 1, hf |-> 1]

(***************************************************************************)
(* C19: for any interleaving of concurrent check_throttle calls, the       *)
(* read-prune-compare-append-store sequence on a timestamp table is atomic *)
(* per identity: two calls of the same identity and class whose times      *)
(* differ by less than min_interval are never both admitted, and a         *)
(* timestamp appended by an admitted call is never overwritten or lost by  *)
(* another call's store.  (With throttling enabled; a timestamp leaves the *)
(* table only by being 60 s old at a later call.)                          *)
(***************************************************************************)
Gap(a, b) == IF a.t >= b.t THEN a.t - b.t ELSE b.t - a.t

StoredOf(a) ==
    Get(IF a.collections THEN collection_request_timestamps ELSE request_timestamps,
        a.ip, <<>>)

InCheck == {t \in Tasks : tasks[t].pos \in {"ct_read", "ct_prune", "ct_compare", "ct_store"}}

C19_ThrottleAtomic ==
    throttle_enabled =>
        /\ \A i, j \in DOMAIN admits :
              (i < j /\ admits[i].ip = admits[j].ip
                     /\ admits[i].collections = admits[j].collections)
                 => Gap(admits[i], admits[j])
                       >= min_interval(IF admits[i].collections THEN "collections"
                                       ELSE "upload")
        /\ \A i \in DOMAIN admits :
              now - admits[i].t < 60 * TicksPerSecond
                 => Count(StoredOf(admits[i]), admits[i].t) = 1
        \* between its read and its store a call is the running coroutine
        /\ \A t \in InCheck : running = t
        /\ \A t \in Tasks :
              tasks[t].pos \in {"ct_prune", "ct_compare"} =>
                 Pruned(tasks[t].timestamps, tasks[t].current_time)
                    = Pruned(Get(TableOf(tasks[t].kind), tasks[t].ip, <<>>),
                             tasks[t].current_time)

\* C19 witness: two list_collections requests of one address were both
\* admitted, 6 s apart, and the table holds both instants.
C19_Witness ==
    /\ tasks[1].kind = "collections" /\ tasks[2].kind = "collections"
    /\ tasks[1].ip = tasks[2].ip
    /\ tasks[1].admitted /\ tasks[2].admitted
    /\ Len(admits) = 2
    /\ collection_request_timestamps[tasks[1].ip] = <<admits[1].t, admits[2].t>>
    /\ admits[2].t - admits[1].t = 60
    /\ now = 60

\* C19 witness: two upload requests of one address called check_throttle
\* at the same instant; one was admitted and the other turned away.
C19_WitnessRejected ==
    /\ tasks[1].kind = "upload" /\ tasks[2].kind = "upload"
    /\ tasks[1].ip = tasks[2].ip
    /\ nticks = 0
    /\ tasks[1].pos = "done"
    /\ ~tasks[1].admitted
    /\ tasks[2].admitted
    /\ Len(admits) = 1

(***************************************************************************)
(* C21: cleanup_old_timestamps sweeps on a check_throttle call only if at  *)
(* least 300 s have passed since the previous sweep.  Right after a sweep  *)
(* neither table holds an identity whose most recent recorded request is   *)
(* more than 3600 s old, and every identity with more recent activity is   *)
(* still there with its list unchanged (the caller's own list is then      *)
(* rewritten by the call itself).  So an identity idle for over an hour    *)
(* is removed by the first call made 300 s or more after the previous      *)
(* sweep.  Stated over every step of check_throttle.                       *)
(***************************************************************************)
IdleTicks == IdleSeconds * TicksPerSecond

PeriodTicks == CleanupPeriodSeconds * TicksPerSecond

\* the caller's list in its own table is the one list the call may rewrite
CallersList(collections, ip) ==
    lastCall'.ip = ip /\ IsCollections(lastCall'.endpoint) = collections

SweptRight(table, tableAfter, collections) ==
    LET t == now'
    IN  /\ \A ip \in DOMAIN tableAfter :
              tableAfter[ip] # <<>> /\ ~(Last(tableAfter[ip]) < t - IdleTicks)
        /\ \A ip \in DOMAIN table :
              IF Last(table[ip]) < t - IdleTicks
              THEN IF CallersList(collections, ip)
                   THEN ip \in DOMAIN tableAfter => tableAfter[ip] = <<t>>
                   ELSE ip \notin DOMAIN tableAfter
              ELSE /\ ip \in DOMAIN tableAfter
                   /\ ~CallersList(collections, ip) => tableAfter[ip] = table[ip]

NotSwept(table, tableAfter) == DOMAIN table \subseteq DOMAIN tableAfter

C21_SweepStep ==
    IF now' - last_cleanup >= PeriodTicks
    THEN /\ last_cleanup' = now'
         /\ SweptRight(request_timestamps, request_timestamps', FALSE)
         /\ SweptRight(collection_request_timestamps, collection_request_timestamps', TRUE)
    ELSE /\ last_cleanup' = last_cleanup
         /\ NotSwept(request_timestamps, request_timestamps')
         /\ NotSwept(collection_request_timestamps, collection_request_timestamps')

C21_SweepCadence == [][ncalls' = ncalls + 1 => C21_SweepStep]_vars

\* C21 witness: ip1 was admitted at 0 s and ip2 at 300 s; a call of ip2 to
\* the other class 3600 s later swept: ip1, idle for 3900 s, is gone, and
\* ip2, whose last request is exactly 3600 s old, kept its list.
C21_Witness ==
    /\ throttle_enabled
    /\ lastAdmit[<<FALSE, "ip1">>] = 0
    /\ "ip1" \notin DOMAIN request_timestamps
    /\ "ip2" \in DOMAIN request_timestamps
    /\ request_timestamps["ip2"] = <<3000>>
    /\ lastCall.ip = "ip2" /\ lastCall.endpoint = "collections"
    /\ now = 39000
    /\ last_cleanup = 39000

\* C21 witness: an identity idle for over an hour is still there after a
\* call made less than 300 s after the previous sweep.
C21_WitnessNotDue ==
    /\ "ip1" \in DOMAIN request_timestamps
    /\ now - Last(request_timestamps["ip1"]) > IdleTicks
    /\ now - last_cleanup < PeriodTicks
    /\ lastCall.ip = "ip2"

(***************************************************************************)
(* C22: every graph accepted by validate_topology has a directed path from *)
(* the user_query node to the llm_engine node and from the llm_engine node *)
(* on to the output node; a graph whose output node is reached from        *)
(* user_query only by a path that goes round the llm_engine node is        *)
(* rejected.                                                               *)
(***************************************************************************)
ReachableFrom(g, id) == bfs(g.edges, <<id>>, {})

C22_PathThroughLlm ==
    (Validated /\ topoResult.ok) =>
        /\ topoResult.by_type["llm_engine"].id
               \in ReachableFrom(graph, topoResult.by_type["user_query"].id)
        /\ topoResult.by_type["output"].id
               \in ReachableFrom(graph, topoResult.by_type["llm_engine"].id)

\* The part of C22 that holds: in an accepted graph both the llm_engine node
\* and the output node are reached from the user_query node.
C22_BothReached ==
    (Validated /\ topoResult.ok) =>
        {topoResult.by_type["llm_engine"].id, topoResult.by_type["output"].id}
            \subseteq ReachableFrom(graph, topoResult.by_type["user_query"].id)

\* The graph A(user_query) -> B(llm_engine), A -> C(output) is accepted,
\* and nothing leads from B to C.
C22_Bypass ==
    /\ graph = [nodes |-> <<Node(1, "user_query"), Node(2, "llm_engine"), Node(3, "output")>>,
                edges |-> <<Edge(1, 2), Edge(1, 3)>>]
    /\ topoResult.ok

(***************************************************************************)
(* C23: a check_throttle call for identity i in class c changes no         *)
(* timestamp list other than the list of i in the table of class c, apart  *)
(* from the removal of idle identities by the periodic sweep.  The         *)
(* decision is a function of the list of i in the table of class c alone,  *)
(* so the two tables never influence each other's decisions; a rejected    *)
(* call leaves the list of i unchanged; a call made while throttling is    *)
(* disabled is allowed and records nothing.  Stated over every step of     *)
(* check_throttle.                                                         *)
(***************************************************************************)
\* the list of ip in table is the same after the step, or has been swept
SameOrSwept(table, tableAfter, ip) ==
    IF ip \in DOMAIN tableAfter
    THEN ip \in DOMAIN table /\ tableAfter[ip] = table[ip]
    ELSE ip \in DOMAIN table =>
            /\ now' - last_cleanup >= PeriodTicks
            /\ Last(table[ip]) < now' - IdleTicks

\* what the call decides from the list of its identity in its own table
DecisionFrom(list, t, collections) ==
    LET recent == SelectSeq(list, LAMBDA ts : t - ts < 60 * TicksPerSecond)
        gap    == IF collections THEN 6 * TicksPerSecond ELSE throttle_delay
    IN  recent = <<>> \/ ~(t - recent[Len(recent)] < gap)

C23_FrameStep ==
    LET ip          == lastCall'.ip
        collections == lastCall'.endpoint = "collections"
        own         == IF collections THEN collection_request_timestamps
                       ELSE request_timestamps
        ownAfter    == IF collections THEN collection_request_timestamps'
                       ELSE request_timestamps'
        other       == IF collections THEN request_timestamps
                       ELSE collection_request_timestamps
        otherAfter  == IF collections THEN request_timestamps'
                       ELSE collection_request_timestamps'
    IN  /\ \A j \in Ips : SameOrSwept(other, otherAfter, j)
        /\ \A j \in Ips \ {ip} : SameOrSwept(own, ownAfter, j)
        /\ throttle_enabled =>
               (lastCall'.allowed <=> DecisionFrom(Get(own, ip, <<>>), now', collections))
        /\ ~lastCall'.allowed =>
               /\ ip \in DOMAIN own /\ ip \in DOMAIN ownAfter
               /\ ownAfter[ip] = own[ip]
        /\ lastCall'.allowed /\ throttle_enabled =>
               /\ ip \in DOMAIN ownAfter
               /\ Last(ownAfter[ip]) = now'
        /\ ~throttle_enabled =>
               /\ lastCall'.allowed
               /\ SameOrSwept(own, ownAfter, ip)

C23_OnlyOwnList == [][ncalls' = ncalls + 1 => C23_FrameStep]_vars

\* C23 witness: ip2 was admitted to the general class at 0 s and ip1 to
\* list_collections at 60 s; a general call of ip1 at that same instant is
\* admitted, and the other two lists are untouched.
C23_Witness ==
    /\ throttle_enabled
    /\ lastCall.ip = "ip1" /\ lastCall.endpoint = "general" /\ lastCall.allowed
    /\ lastCall.t = 600
    /\ DOMAIN collection_request_timestamps = {"ip1"}
    /\ collection_request_timestamps["ip1"] = <<600>>
    /\ DOMAIN request_timestamps = {"ip1", "ip2"}
    /\ request_timestamps["ip1"] = <<600>>
    /\ request_timestamps["ip2"] = <<0>>

\* C23 witness: a call of ip1 is turned away 58 s after an admitted one that
\* followed another by 3 s; its list still holds all it held.
C23_WitnessRejected ==
    /\ throttle_enabled
    /\ lastCall.ip = "ip1" /\ lastCall.endpoint = "collections" /\ ~lastCall.allowed
    /\ DOMAIN collection_request_timestamps = {"ip1"}
    /\ collection_request_timestamps["ip1"] = <<0, 580>>
    /\ lastCall.t = 610

\* C23 witness: with throttling disabled every call was allowed and nothing
\* was recorded.
C23_WitnessDisabled ==
    /\ ~throttle_enabled
    /\ ncalls = MaxCalls
    /\ lastCall.allowed
    /\ lastCall.prev = None
    /\ request_timestamps = <<>>
    /\ collection_request_timestamps = <<>>

(***************************************************************************)
(* The database pool (database.py).  Every persistence function starts     *)
(* with "pool = await get_pool()".  get_pool tests _pool and, finding      *)
(* None, awaits init_db, which awaits asyncpg.create_pool, assigns _pool,  *)
(* awaits the schema statements and returns _pool.  main.py runs init_db   *)
(* in its startup event; functions/api.py serves the same app with         *)
(* Mangum(app, lifespan="off"), where that event never runs.  The callers  *)
(* are coroutines of one event loop: each action below is what one of      *)
(* them does from one suspension to the next.  DATABASE_URL is set.        *)
(***************************************************************************)
DbTasks == 1..MaxCallers

NewCaller == [pos |-> "get_pool", made |-> None, handle |-> None]

InitPool ==
    /\ ThrottleIdle
    /\ TopoIdle
    /\ HandlerIdle
    /\ promptArgs = NoArgs
    /\ composed = NotComposed
    /\ history = NoHistory
    /\ chat_history = NotTrimmed
    /\ messages = NotSent
    /\ LoopIdle
    /\ lifespan \in {"on", "off"}
    /\ pool = IF lifespan = "on" THEN 1 ELSE None
    /\ created = IF lifespan = "on" THEN 1 ELSE 0
    /\ dbtasks = [t \in DbTasks |-> NewCaller]
    /\ ChunkIdle

poolRest == <<throttleVars, topoVars, handlerVars, promptArgs, composed, history, chat_history,
              messages, loopVars, lifespan, chunkVars>>

\* get_pool: "if _pool is None" is false: return _pool
GetPoolReady ==
    \E t \in DbTasks :
        /\ dbtasks[t].pos = "get_pool"
        /\ pool # None
        /\ dbtasks' = [dbtasks EXCEPT ![t] = [@ EXCEPT !.pos = "done", !.handle = pool]]
        /\ UNCHANGED <<poolRest, pool, created>>

\* get_pool: "if _pool is None" is true: await init_db(), which suspends in
\* await asyncpg.create_pool(...)
GetPoolNone ==
    \E t \in DbTasks :
        /\ dbtasks[t].pos = "get_pool"
        /\ pool = None
        /\ dbtasks' = [dbtasks EXCEPT ![t] = [@ EXCEPT !.pos = "create_pool"]]
        /\ UNCHANGED <<poolRest, pool, created>>

\* init_db: create_pool returns a new pool, _pool = that pool, and the
\* coroutine suspends in the schema statements
CreatePool ==
    \E t \in DbTasks :
        /\ dbtasks[t].pos = "create_pool"
        /\ created' = created + 1
        /\ pool' = created + 1
        /\ dbtasks' = [dbtasks EXCEPT ![t] = [@ EXCEPT !.pos = "schema", !.made = created + 1]]
        /\ UNCHANGED poolRest

\* init_db: the schema is there, "return _pool"; get_pool: "_pool = " what
\* init_db returned, "return _pool"
InitDbReturn ==
    \E t \in DbTasks :
        /\ dbtasks[t].pos = "schema"
        /\ pool' = pool
        /\ dbtasks' = [dbtasks EXCEPT ![t] = [@ EXCEPT !.pos = "done", !.handle = pool]]
        /\ UNCHANGED <<poolRest, created>>

NextPool == GetPoolReady \/ GetPoolNone \/ CreatePool \/ InitDbReturn

SpecPool == InitPool /\ [][NextPool]_vars

(***************************************************************************)
(* C24: when several requests use the database for the first time          *)
(* concurrently and no pool was created at startup, the pool is created    *)
(* at most once per process: get_pool never lets two requests both see an  *)
(* uninitialised pool and both run init_db, so no second pool is created   *)
(* and no pool handle is overwritten.                                      *)
(***************************************************************************)
InInitDb == {t \in DbTasks : dbtasks[t].pos \in {"create_pool", "schema"}}

C24_PoolCreatedOnce ==
    lifespan = "off" =>
        /\ created <= 1
        /\ Cardinality(InInitDb) <= 1
        /\ \A t \in DbTasks : dbtasks[t].made # None => pool = dbtasks[t].made

\* The part of C24 that holds: after a startup that ran init_db, get_pool
\* never creates a pool and every caller gets the one made at startup.
C24_StartupPoolOnly ==
    lifespan = "on" =>
        /\ created = 1
        /\ pool = 1
        /\ InInitDb = {}
        /\ \A t \in DbTasks : dbtasks[t].pos = "done" => dbtasks[t].handle = 1

\* Two callers were both inside init_db; each made a pool, the second
\* assignment replaced the first handle, and the two went on with
\* different pools.
C24_TwoPools ==
    /\ lifespan = "off"
    /\ created = 2
    /\ dbtasks[1].pos = "done" /\ dbtasks[1].made = 1 /\ dbtasks[1].handle = 1
    /\ dbtasks[2].pos = "done" /\ dbtasks[2].made = 2 /\ dbtasks[2].handle = 2
    /\ pool = 2

(***************************************************************************)
(* chunk_text as upload_knowledge calls it (main.py:510): the text is what *)
(* extract_text_from_pdf_bytes returned, stripped and not empty (507-508); *)
(* chunk_size and chunk_overlap are query parameters declared "int" with   *)
(* no constraint (486-487), so any integers.  A text is a sequence of      *)
(* characters; the loop is followed iteration by iteration.  The first     *)
(* MaxChunks entries of chunks are kept, more than any text has            *)
(* characters, and start is kept down to StartFloor, below every value it  *)
(* takes in those iterations: a call that goes on after that goes round    *)
(* the loop with the same list and a start that is still below             *)
(* len(cleaned).                                                           *)
(***************************************************************************)
Chars == {"a", "b", " ", NL}

Blank(c) == c \in {" ", NL}

ChunkTexts ==
    {t \in UNION {[1..n -> Chars] : n \in 1..MaxText} : ~Blank(t[1]) /\ ~Blank(t[Len(t)])}

ChunkSizes == (0 - 1)..MaxText

MaxChunks == MaxText + 1

StartFloor == 0 - MaxChunks * (MaxText + 1)

\* text.replace("\r", " ").replace("\n", " ")
Cleaned(text) == [i \in DOMAIN text |-> IF text[i] = NL THEN " " ELSE text[i]]

\* where Python puts the bound k of a slice of a sequence of length n
SliceBound(k, n) ==
    IF k < 0 THEN (IF k + n < 0 THEN 0 ELSE k + n)
    ELSE Min(k, n)

\* s[i:j]
Slice(s, i, j) ==
    LET lo == SliceBound(i, Len(s))
        hi == SliceBound(j, Len(s))
    IN  IF lo >= hi THEN <<>> ELSE SubSeq(s, lo + 1, hi)

\* c.strip()
Strip(c) ==
    LET solid == {i \in DOMAIN c : ~Blank(c[i])}
    IN  IF solid = {} THEN <<>>
        ELSE SubSeq(c, CHOOSE i \in solid : \A k \in solid : i <= k,
                       CHOOSE i \in solid : \A k \in solid : k <= i)

\* [c.strip() for c in chunks if c.strip()]
StrippedChunks(cs) ==
    LET kept == SelectSeq(cs, LAMBDA c : Strip(c) # <<>>)
    IN  [i \in DOMAIN kept |-> Strip(kept[i])]

chunkRest == <<throttleVars, topoVars, handlerVars, promptArgs, composed, history, chat_history,
               messages, loopVars, dbVars>>

InitChunk ==
    /\ ThrottleIdle
    /\ TopoIdle
    /\ HandlerIdle
    /\ promptArgs = NoArgs
    /\ composed = NotComposed
    /\ history = NoHistory
    /\ chat_history = NotTrimmed
    /\ messages = NotSent
    /\ LoopIdle
    /\ DbIdle
    /\ chunkArgs \in [text : ChunkTexts, chunk_size : ChunkSizes, overlap : ChunkSizes]
    /\ chunkpc = "called"
    /\ cleaned = <<>>
    /\ chunks = <<>>
    /\ chunk_start = 0
    /\ chunked = <<>>

\* cleaned = ...; chunks = []; start = 0
ChunkBegin ==
    /\ chunkpc = "called"
    /\ cleaned' = Cleaned(chunkArgs.text)
    /\ chunks' = <<>>
    /\ chunk_start' = 0
    /\ chunkpc' = "while"
    /\ UNCHANGED <<chunkRest, chunkArgs, chunked>>

\* "while start < len(cleaned)" is true
ChunkTest ==
    /\ chunkpc = "while"
    /\ chunk_start < Len(cleaned)
    /\ chunkpc' = "body"
    /\ UNCHANGED <<chunkRest, chunkArgs, cleaned, chunks, chunk_start, chunked>>

\* the body of the loop
ChunkStep ==
    /\ chunkpc = "body"
    /\ LET end == chunk_start + chunkArgs.chunk_size
       IN  /\ chunks' = IF Len(chunks) < MaxChunks
                        THEN Append(chunks, Slice(cleaned, chunk_start, end))
                        ELSE chunks
           /\ chunk_start' = IF end - chunkArgs.overlap < StartFloor THEN StartFloor
                             ELSE end - chunkArgs.overlap
    /\ chunkpc' = "while"
    /\ UNCHANGED <<chunkRest, chunkArgs, cleaned, chunked>>

\* the loop condition is false: return [c.strip() for c in chunks if c.strip()]
ChunkReturn ==
    /\ chunkpc = "while"
    /\ ~(chunk_start < Len(cleaned))
    /\ chunked' = StrippedChunks(chunks)
    /\ chunkpc' = "returned"
    /\ UNCHANGED <<chunkRest, chunkArgs, cleaned, chunks, chunk_start>>

NextChunk == ChunkBegin \/ ChunkTest \/ ChunkStep \/ ChunkReturn

\* the interpreter keeps running the call
SpecChunk == InitChunk /\ [][NextChunk]_vars /\ WF_vars(NextChunk)

(***************************************************************************)
(* C25: chunk_text terminates and returns a finite list of chunks for      *)
(* every text and every pair of chunk_size and overlap that the upload     *)
(* endpoint accepts from its caller, overlap greater than or equal to      *)
(* chunk_size included.                                                    *)
(***************************************************************************)
C25_Terminates == <>(chunkpc = "returned")

\* The same as a statement on the loop: no call makes more iterations than
\* its text has characters, which every call that ends does not.
C25_IterationsBounded == Len(chunks) <= Len(chunkArgs.text)

\* The part of C25 that holds: with chunk_size greater than overlap the
\* call returns.
C25_TerminatesWhenAdvancing ==
    (chunkArgs.chunk_size > chunkArgs.overlap) ~> (chunkpc = "returned")

\* Every iteration moves start by chunk_size - overlap.
C25_StartMovesByDifference ==
    [][chunks' # chunks =>
          chunk_start' = chunk_start + chunkArgs.chunk_size - chunkArgs.overlap]_vars

\* chunk_text("ab", chunk_size = 1, overlap = 1) enters the body of its
\* loop again, with start = 0, after more iterations than the text has
\* characters.
C25_Stuck ==
    /\ chunkArgs = [text |-> <<"a", "b">>, chunk_size |-> 1, overlap |-> 1]
    /\ chunkpc = "body"
    /\ chunk_start = 0
    /\ Len(chunks) = MaxChunks
    /\ \A i \in DOMAIN chunks : chunks[i] = <<"a">>

(***************************************************************************)
(* C26: the provider reported in a run's result, chat log and outcome      *)
(* record always names the generation backend that call_llm invoked for    *)
(* the request, for every provider string a generation node can carry,     *)
(* strings other than "openai" and "gemini" included.                      *)
(***************************************************************************)
ReportedProviders ==
    {response.provider}
        \cup {chat_logs[i].provider : i \in DOMAIN chat_logs}
        \cup {execution_logs[i].provider : i \in DOMAIN execution_logs}

C26_ProviderIsBackend ==
    (request.kind = "run" /\ pc = "done") => ReportedProviders = {llm_backend}

\* The part of C26 that holds: the three reports agree with each other, and
\* they name the backend invoked whenever the provider is "openai" or
\* "gemini", given by the node or chosen by default.
C26_KnownProviderIsBackend ==
    (request.kind = "run" /\ pc = "done") =>
        /\ ReportedProviders = {provider}
        /\ provider \in {"openai", "gemini"} => provider = llm_backend

\* A run whose generation node carries the provider "other" (any string
\* that is neither "openai" nor "gemini") succeeded: the prompt went to
\* OpenAI and all three reports say "other".
C26_OtherProvider ==
    /\ request.kind = "run" /\ pc = "done"
    /\ Get(llm_node.params, "provider", "") = "other"
    /\ calls.llm = 1
    /\ llm_backend = "openai"
    /\ ReportedProviders = {"other"}

(***************************************************************************)
(* C27: the chat log and the outcome record of a request are consistent:   *)
(* a chat-log record exists only if the request's outcome record has       *)
(* status "success" and the caller received the answer; no reachable       *)
(* failure, such as a failure of the outcome write after the chat log was  *)
(* saved, leaves a chat-log record for a request whose outcome is "error". *)
(***************************************************************************)
OutcomeStatuses == {execution_logs[i].status : i \in DOMAIN execution_logs}

C27_ChatLogOnlyOnSuccess ==
    (request.kind = "run" /\ Terminated /\ chat_logs # <<>>) =>
        /\ OutcomeStatuses = {"success"}
        /\ response.code = 200

\* The part of C27 that holds: a chat-log record exists only once the
\* generation call has returned, there is at most one, and a request that
\* ends with the answer has one chat-log record and one "success" outcome.
C27_ChatLogAfterGeneration ==
    request.kind = "run" =>
        /\ Len(chat_logs) <= 1
        /\ chat_logs # <<>> => (calls.llm = 1 /\ failedAt \in {"", "logging"})
        /\ pc = "done" => (Len(chat_logs) = 1 /\ OutcomeStatuses = {"success"})

\* The chat log was saved, the write of the "success" outcome failed, and
\* the handler recorded the outcome "error": the caller got a 500.
C27_ChatLogWithErrorOutcome ==
    /\ request.kind = "run" /\ pc = "raised"
    /\ Len(chat_logs) = 1
    /\ OutcomeStatuses = {"error"}
    /\ error_message = "execution log write error"
    /\ response.code = 500

=============================================================================
